---- MODULE Spec2Model ----
(***************************************************************************)
(* doskit: the source-to-MZ-executable pipeline.                           *)
(*                                                                         *)
(* Text is a sequence of UTF-16 code units (integers), bytes are integers  *)
(* in 0..255.  The generator (DosExecutableGenerator) is a set of pure     *)
(* operators; the compile pipeline (CompilerService, WasmCompilerService)  *)
(* is a state machine whose steps are the stretches between two awaits.    *)
(***************************************************************************)
EXTENDS Integers, Sequences, FiniteSets, TLC

(***************************************************************************)
(* Text primitives                                                         *)
(***************************************************************************)

\* the least element of a non-empty finite set of integers
MinOf(S) == CHOOSE x \in S : \A y \in S : x <= y

\* pat occurs in s at index i (1-based)
IsPrefixAt(s, i, pat) ==
    /\ i + Len(pat) - 1 <= Len(s)
    /\ \A k \in 1..Len(pat) : s[i + k - 1] = pat[k]

\* String.prototype.includes
includes(s, pat) == \E i \in 1..Len(s) : IsPrefixAt(s, i, pat)

\* (s.match(/c/g) || []).length for a one-character pattern
matchCount(s, c) == Cardinality({i \in 1..Len(s) : s[i] = c})

\* the regular expression class \s
IsSpace(c) ==
    c \in ({9, 10, 11, 12, 13, 32, 160, 5760, 8232, 8233, 8239, 8287, 12288, 65279}
             \cup (8192..8202))

RECURSIVE skipSpace(_, _)
\* \s* from index i: the index of the first character that is not white space
skipSpace(s, i) ==
    IF i <= Len(s) /\ IsSpace(s[i]) THEN skipSpace(s, i + 1) ELSE i

\* index of the first '"' at or after i, 0 when there is none
nextQuote(s, i) ==
    LET Q == {j \in i..Len(s) : s[j] = 34}
    IN  IF Q = {} THEN 0 ELSE MinOf(Q)

NoMatch == [lo |-> 0, hi |-> 0, next |-> 0]

\* "printf"
PRINTF == <<112, 114, 105, 110, 116, 102>>

\* One attempt of /printf\s*\(\s*"([^"]*)"\s*\)/ (closeParen) or of
\* /printf\s*\(\s*"([^"]*)"/ (~closeParen) at index i: the capture group is
\* s[lo..hi], next is the index after the match.
matchPrintfAt(s, i, closeParen) ==
    LET b == skipSpace(s, i + 6)
        c == skipSpace(s, b + 1)
        q == nextQuote(s, c + 1)
        d == skipSpace(s, q + 1)
    IN  IF \/ ~IsPrefixAt(s, i, PRINTF)
           \/ b > Len(s) \/ s[b] # 40
           \/ c > Len(s) \/ s[c] # 34
           \/ q = 0
        THEN NoMatch
        ELSE IF ~closeParen THEN [lo |-> c + 1, hi |-> q - 1, next |-> q + 1]
        ELSE IF d <= Len(s) /\ s[d] = 41
             THEN [lo |-> c + 1, hi |-> q - 1, next |-> d + 1]
             ELSE NoMatch

RECURSIVE matchAllFrom(_, _, _)
\* the capture groups of every match at or after pos, in order (flag g)
matchAllFrom(s, pos, closeParen) ==
    LET C == {i \in pos..Len(s) : matchPrintfAt(s, i, closeParen) # NoMatch}
    IN  IF C = {} THEN <<>>
        ELSE LET m == matchPrintfAt(s, MinOf(C), closeParen)
             IN  <<SubSeq(s, m.lo, m.hi)>> \o matchAllFrom(s, m.next, closeParen)

RECURSIVE replaceAll(_, _, _)
\* s.replace(/pat/g, rep) for a literal pattern
replaceAll(s, pat, rep) ==
    LET O == {i \in 1..Len(s) : IsPrefixAt(s, i, pat)}
    IN  IF O = {} THEN s
        ELSE LET i == MinOf(O)
             IN  SubSeq(s, 1, i - 1) \o rep
                   \o replaceAll(SubSeq(s, i + Len(pat), Len(s)), pat, rep)

\* the UTF-8 bytes of one code unit of the basic plane (no surrogates)
utf8(c) ==
    IF c < 128 THEN <<c>>
    ELSE IF c < 2048 THEN <<192 + (c \div 64), 128 + (c % 64)>>
    ELSE <<224 + (c \div 4096), 128 + ((c \div 64) % 64), 128 + (c % 64)>>

RECURSIVE encodeRange(_, _, _)
encodeRange(s, lo, hi) ==
    IF lo > hi THEN <<>>
    ELSE IF lo = hi THEN utf8(s[lo])
    ELSE LET mid == (lo + hi) \div 2
         IN  encodeRange(s, lo, mid) \o encodeRange(s, mid + 1, hi)

\* new TextEncoder().encode(s)
encode(s) == encodeRange(s, 1, Len(s))

(***************************************************************************)
(* DataView                                                                *)
(***************************************************************************)

\* setUint16 without the little-endian flag: high byte first
setUint16BigEndian(v) == <<(v % 65536) \div 256, (v % 65536) % 256>>

\* DataView.setUint16(_, v, true): the two bytes of v modulo 2^16, low first
setUint16(v) == <<(v % 65536) % 256, (v % 65536) \div 256>>

\* DataView.getUint16(off, true) on a buffer (off is 0-based)
getUint16(buffer, off) == buffer[off + 1] + 256 * buffer[off + 2]

\* buf with the bytes at 0-based offset off replaced by bytes
setBytes(buf, off, bytes) ==
    [i \in 1..Len(buf) |->
        IF i > off /\ i <= off + Len(bytes) THEN bytes[i - off] ELSE buf[i]]

(***************************************************************************)
(* DosSystemCalls and DosExecutableGenerator                               *)
(***************************************************************************)

\* a property of a JS object, or its default when the property is absent
Field(obj, key, default) == IF key \in DOMAIN obj THEN obj[key] ELSE default

\* no properties at all: {}
NoOptions == [k \in {} |-> 0]

\* { ...base, ...over }: the properties of over win
Spread(base, over) ==
    [k \in (DOMAIN base) \cup (DOMAIN over) |->
        IF k \in DOMAIN over THEN over[k] ELSE base[k]]

\* DosSystemCalls.generateExit(exitCode): MOV AH,4Ch; MOV AL,code; INT 21h
generateExit(exitCode) == <<180, 76, 176, exitCode % 256, 205, 33>>

\* the signature word "MZ"
MZ_SIGNATURE == 23117

\* Math.ceil(a / b) for a >= 0, b > 0
\* the quotient rounded down
FloorDiv(a, b) == a \div b

CeilDiv(a, b) == (a + b - 1) \div b

\* DosExecutableGenerator.createEnhancedMZHeader
createEnhancedMZHeader(config) ==
    LET codeSize == config.codeSize
        dataSize == Field(config, "dataSize", 0)
        stackSize == Field(config, "stackSize", 512)
        relocations == Field(config, "relocations", <<>>)
        entryPoint == Field(config, "entryPoint", 0)
        relocationCount == Len(relocations)
        headerSize == 32
        headerParagraphs == headerSize \div 16
        imageSize == codeSize + dataSize
        totalFileSize == headerSize + imageSize
        pages == CeilDiv(totalFileSize, 512)
        bytesOnLastPage ==
            IF totalFileSize % 512 # 0 THEN totalFileSize % 512 ELSE 512
        minExtraParagraphs == 0
        maxExtraParagraphs == 65535
        imageParagraphs == CeilDiv(imageSize, 16)
        initialSS == imageParagraphs
        initialSP == stackSize
        initialCS == 0
        initialIP == entryPoint
        relocationTableOffset == IF relocationCount > 0 THEN headerSize ELSE 28
    IN  setUint16(MZ_SIGNATURE) \o setUint16(bytesOnLastPage) \o setUint16(pages)
          \o setUint16(relocationCount) \o setUint16(headerParagraphs)
          \o setUint16(minExtraParagraphs) \o setUint16(maxExtraParagraphs)
          \o setUint16(initialSS) \o setUint16(initialSP) \o setUint16(0)
          \o setUint16(initialIP) \o setUint16(initialCS)
          \o setUint16(relocationTableOffset) \o setUint16(0)
          \o <<0, 0, 0, 0>>

\* DosExecutableGenerator.createMZHeader (the legacy entry point)
createMZHeader(codeSize) == createEnhancedMZHeader([codeSize |-> codeSize])

\* generateRelocationTable writing the segment before the offset
generateRelocationTableSwapped(relocations) ==
    [i \in 1..(4 * Len(relocations)) |->
        LET entry == relocations[((i - 1) \div 4) + 1]
            k == (i - 1) % 4
        IN  IF k < 2 THEN setUint16(entry.segment)[k + 1]
            ELSE setUint16(entry.offset)[k - 1]]

\* DosExecutableGenerator.generateRelocationTable
generateRelocationTable(relocations) ==
    [i \in 1..(4 * Len(relocations)) |->
        LET entry == relocations[((i - 1) \div 4) + 1]
            k == (i - 1) % 4
        IN  IF k < 2 THEN setUint16(entry.offset)[k + 1]
            ELSE setUint16(entry.segment)[k - 1]]

RECURSIVE wordSum(_, _, _)
\* the loop of calculateChecksum over the words lo..hi (word w is at byte
\* offset 2w): every word but the one at offset 18, kept in 16 bits
wordSum(buffer, lo, hi) ==
    IF lo > hi THEN 0
    ELSE IF lo = hi
         THEN (IF 2 * lo = 18 THEN 0 ELSE getUint16(buffer, 2 * lo))
    ELSE LET mid == (lo + hi) \div 2
         IN  (wordSum(buffer, lo, mid) + wordSum(buffer, mid + 1, hi)) % 65536

RECURSIVE wordSumAll(_, _, _)
\* the loop of calculateChecksum without the test that skips offset 18
wordSumAll(buffer, lo, hi) ==
    IF lo > hi THEN 0
    ELSE IF lo = hi THEN getUint16(buffer, 2 * lo)
    ELSE LET mid == (lo + hi) \div 2
         IN  (wordSumAll(buffer, lo, mid) + wordSumAll(buffer, mid + 1, hi)) % 65536

\* calculateChecksum summing the stored checksum word with the others
calculateChecksumNoSkip(executable) ==
    LET buffer == IF Len(executable) % 2 = 0 THEN executable
                  ELSE executable \o <<0>>
        sum == wordSumAll(buffer, 0, (Len(buffer) \div 2) - 1)
    IN  (65536 - sum) % 65536

\* DosExecutableGenerator.calculateChecksum
calculateChecksum(executable) ==
    LET buffer == IF Len(executable) % 2 = 0 THEN executable
                  ELSE executable \o <<0>>
        sum == wordSum(buffer, 0, (Len(buffer) \div 2) - 1)
    IN  (65536 - sum) % 65536

\* DosExecutableGenerator.applyChecksum (the buffer is changed in place)
applyChecksum(executable) ==
    setBytes(executable, 18, setUint16(calculateChecksum(executable)))

\* calculateChecksum among the arrays in being (heap maps each array to its
\* bytes): the arrays after the call and the number returned.  An array of
\* odd length is copied, with a zero after it, into a new array, buffer;
\* nothing is written to executable.
calculateChecksumIn(heap, executable) ==
    [heap |-> IF Len(heap[executable]) % 2 = 0 THEN heap
              ELSE Spread(heap, [buffer |-> heap[executable] \o <<0>>]),
     value |-> calculateChecksum(heap[executable])]

\* an applyChecksum that leaves its argument alone and returns a new array
applyChecksumInCopy(heap, executable) ==
    LET c == calculateChecksumIn(heap, executable)
    IN  [heap |-> Spread(c.heap,
                         [copy |-> setBytes(heap[executable], 18,
                                            setUint16(c.value))]),
         value |-> "copy"]

\* applyChecksum among the arrays in being: the word is stored at offset 18
\* of executable itself, and executable is what is returned
applyChecksumIn(heap, executable) ==
    LET c == calculateChecksumIn(heap, executable)
    IN  [heap |-> [c.heap EXCEPT ![executable] =
                      setBytes(@, 18, setUint16(c.value))],
         value |-> executable]

\* an assembly that puts the relocation table behind the code
createMZExecutableTableLast(config, code) ==
    createEnhancedMZHeader(config) \o code
      \o generateRelocationTable(Field(config, "relocations", <<>>))

\* DosExecutableGenerator.createMZExecutable
createMZExecutable(config, code) ==
    LET relocations == Field(config, "relocations", <<>>)
        calcChecksum == Field(config, "calculateChecksum", FALSE)
        header == createEnhancedMZHeader(config)
        relocationTable == IF Len(relocations) > 0
                           THEN generateRelocationTable(relocations)
                           ELSE <<>>
        executable == header \o relocationTable \o code
    IN  IF calcChecksum THEN applyChecksum(executable) ELSE executable

\* DosExecutableGenerator.createExecutableWithRelocations
createExecutableWithRelocations(code, relocations, options) ==
    createMZExecutable(
        Spread([codeSize |-> Len(code), relocations |-> relocations], options),
        code)

\* the hand-written code of generateHelloWorld
HelloWorldCode ==
    <<180, 9, 186, 14, 0, 205, 33,
      180, 76, 176, 0, 205, 33,
      72, 101, 108, 108, 111, 32, 87, 111, 114, 108, 100, 33, 13, 10, 36>>

\* DosExecutableGenerator.generateHelloWorld
generateHelloWorld == createMZHeader(Len(HelloWorldCode)) \o HelloWorldCode

\* the replacements with backslash-n turned into a bare line feed
toDosMessageBareLF(message) ==
    replaceAll(
        replaceAll(
            replaceAll(message, <<92, 110>>, <<10>>),
            <<92, 116>>, <<9>>),
        <<92, 114>>, <<13>>)

\* message.replace(/\\n/g, '\r\n').replace(/\\t/g, '\t').replace(/\\r/g, '\r')
toDosMessage(message) ==
    replaceAll(
        replaceAll(
            replaceAll(message, <<92, 110>>, <<13, 10>>),
            <<92, 116>>, <<9>>),
        <<92, 114>>, <<13>>)

\* new TextEncoder().encode(dosMessage + '$')
messageBytes(dosMessage) == encode(dosMessage \o <<36>>)

RECURSIVE printCodesPSP(_, _, _)
\* the print fragments with offsets counted from the PSP, as a COM file
\* would have them (256 bytes more)
printCodesPSP(dosMessages, k, dataOffset) ==
    IF k > Len(dosMessages) THEN <<>>
    ELSE <<180, 9, 186, (dataOffset + 256) % 256,
           ((dataOffset + 256) \div 256) % 256, 205, 33>>
           \o printCodesPSP(dosMessages, k + 1,
                            dataOffset + Len(messageBytes(dosMessages[k])))

RECURSIVE printCodes(_, _, _)
\* the loop that emits one print fragment per message from index k on,
\* dataOffset being the running offset of the message's data
printCodes(dosMessages, k, dataOffset) ==
    IF k > Len(dosMessages) THEN <<>>
    ELSE <<180, 9, 186, dataOffset % 256, (dataOffset \div 256) % 256, 205, 33>>
           \o printCodes(dosMessages, k + 1,
                         dataOffset + Len(messageBytes(dosMessages[k])))

RECURSIVE messageDataReversed(_, _)
\* the data blocks appended last message first
messageDataReversed(dosMessages, k) ==
    IF k > Len(dosMessages) THEN <<>>
    ELSE messageDataReversed(dosMessages, k + 1) \o messageBytes(dosMessages[k])

RECURSIVE messageData(_, _)
\* the loop that appends the data blocks from index k on
messageData(dosMessages, k) ==
    IF k > Len(dosMessages) THEN <<>>
    ELSE messageBytes(dosMessages[k]) \o messageData(dosMessages, k + 1)

\* the DOS form of every message, in order
dosMessagesOf(messages) ==
    [k \in 1..Len(messages) |-> toDosMessage(messages[k])]

\* the code/data buffer generateFromSimpleC builds for the messages (there
\* are as many DOS messages as messages)
emitCode(dosMessages) ==
    LET dsSetupSize == 4
        printCodeSize == 7
        exitCodeSize == 6
        totalPrintCode == Len(dosMessages) * printCodeSize
        totalCodeBeforeData == dsSetupSize + totalPrintCode + exitCodeSize
        setupDS == <<140, 200, 142, 216>>
    IN  setupDS \o printCodes(dosMessages, 1, totalCodeBeforeData)
          \o generateExit(0) \o messageData(dosMessages, 1)

\* the code/data buffer with every printf that begins with a literal taken
\* for a print, whatever follows the literal
simpleCCodeAnyArguments(sourceCode) ==
    emitCode(dosMessagesOf(matchAllFrom(sourceCode, 1, FALSE)))

\* the code/data buffer of a source text
simpleCCode(sourceCode) ==
    emitCode(dosMessagesOf(matchAllFrom(sourceCode, 1, TRUE)))

\* the header of a code buffer, then the buffer
withMZHeader(code) == createMZHeader(Len(code)) \o code

\* DosExecutableGenerator.generateFromSimpleC
generateFromSimpleC(sourceCode) == withMZHeader(simpleCCode(sourceCode))

\* DosExecutableGenerator.isValidMZExecutable
isValidMZExecutable(buffer) ==
    IF Len(buffer) < 28 THEN FALSE
    ELSE getUint16(buffer, 0) = MZ_SIGNATURE

\* the result null
Null == [null |-> TRUE]

\* DosExecutableGenerator.getMZInfo
getMZInfo(buffer) ==
    IF ~isValidMZExecutable(buffer) THEN Null
    ELSE [signature |-> getUint16(buffer, 0),
          bytesOnLastPage |-> getUint16(buffer, 2),
          pagesInFile |-> getUint16(buffer, 4),
          relocations |-> getUint16(buffer, 6),
          headerParagraphs |-> getUint16(buffer, 8),
          minExtraParagraphs |-> getUint16(buffer, 10),
          maxExtraParagraphs |-> getUint16(buffer, 12),
          initialSS |-> getUint16(buffer, 14),
          initialSP |-> getUint16(buffer, 16),
          checksum |-> getUint16(buffer, 18),
          initialIP |-> getUint16(buffer, 20),
          initialCS |-> getUint16(buffer, 22),
          relocationTableOffset |-> getUint16(buffer, 24),
          overlayNumber |-> getUint16(buffer, 26)]

RECURSIVE readEntries(_, _, _, _)
\* the loop of getRelocationEntries from entry i on (0-based)
readEntries(executable, relocationCount, relocationTableOffset, i) ==
    LET entryOffset == relocationTableOffset + (i * 4)
    IN  IF i >= relocationCount THEN <<>>
        ELSE IF entryOffset + 4 > Len(executable) THEN <<>>
        ELSE <<[offset |-> getUint16(executable, entryOffset),
                segment |-> getUint16(executable, entryOffset + 2)]>>
               \o readEntries(executable, relocationCount,
                              relocationTableOffset, i + 1)

\* DosExecutableGenerator.getRelocationEntries: [null |-> TRUE] or the list
getRelocationEntries(executable) ==
    LET info == getMZInfo(executable)
    IN  IF info = Null THEN Null
        ELSE IF info.relocations = 0 THEN [null |-> FALSE, entries |-> <<>>]
        ELSE [null |-> FALSE,
              entries |-> readEntries(executable, info.relocations,
                                      info.relocationTableOffset, 0)]

\* A Uint8Array in general: a window of length bytes that begins byteOffset
\* bytes into its ArrayBuffer.  The operators above take the bytes of an
\* array that owns its whole buffer (byteOffset 0); the ones below are the
\* same methods on any array.
Uint8Array(buffer, byteOffset, length) ==
    [buffer |-> buffer, byteOffset |-> byteOffset, length |-> length]

\* the bytes of a Uint8Array: array[0], ..., array[length - 1]
bytesOf(array) ==
    SubSeq(array.buffer, array.byteOffset + 1, array.byteOffset + array.length)

\* isValidMZExecutable on any array: new DataView(buffer.buffer) begins at
\* the first byte of the ArrayBuffer
isValidMZExecutableView(array) ==
    IF array.length < 28 THEN FALSE
    ELSE getUint16(array.buffer, 0) = MZ_SIGNATURE

\* getMZInfo on any array: the same DataView
getMZInfoView(array) ==
    IF ~isValidMZExecutableView(array) THEN Null
    ELSE [signature |-> getUint16(array.buffer, 0),
          bytesOnLastPage |-> getUint16(array.buffer, 2),
          pagesInFile |-> getUint16(array.buffer, 4),
          relocations |-> getUint16(array.buffer, 6),
          headerParagraphs |-> getUint16(array.buffer, 8),
          minExtraParagraphs |-> getUint16(array.buffer, 10),
          maxExtraParagraphs |-> getUint16(array.buffer, 12),
          initialSS |-> getUint16(array.buffer, 14),
          initialSP |-> getUint16(array.buffer, 16),
          checksum |-> getUint16(array.buffer, 18),
          initialIP |-> getUint16(array.buffer, 20),
          initialCS |-> getUint16(array.buffer, 22),
          relocationTableOffset |-> getUint16(array.buffer, 24),
          overlayNumber |-> getUint16(array.buffer, 26)]

RECURSIVE readEntriesView(_, _, _, _)
\* the loop of getRelocationEntries on any array: the DataView begins at
\* executable.byteOffset, the guard compares with executable.length
readEntriesView(executable, relocationCount, relocationTableOffset, i) ==
    LET entryOffset == relocationTableOffset + (i * 4)
    IN  IF i >= relocationCount THEN <<>>
        ELSE IF entryOffset + 4 > executable.length THEN <<>>
        ELSE <<[offset |-> getUint16(executable.buffer,
                                     executable.byteOffset + entryOffset),
                segment |-> getUint16(executable.buffer,
                                      executable.byteOffset + entryOffset + 2)]>>
               \o readEntriesView(executable, relocationCount,
                                  relocationTableOffset, i + 1)

\* getRelocationEntries on any array
getRelocationEntriesView(executable) ==
    LET info == getMZInfoView(executable)
    IN  IF info = Null THEN Null
        ELSE IF info.relocations = 0 THEN [null |-> FALSE, entries |-> <<>>]
        ELSE [null |-> FALSE,
              entries |-> readEntriesView(executable, info.relocations,
                                          info.relocationTableOffset, 0)]

RECURSIVE readOffsets(_, _, _, _)
\* the byte offsets the loop of getRelocationEntries reads from entry i on
readOffsets(executable, relocationCount, relocationTableOffset, i) ==
    LET entryOffset == relocationTableOffset + (i * 4)
    IN  IF i >= relocationCount THEN {}
        ELSE IF entryOffset + 4 > Len(executable) THEN {}
        ELSE (entryOffset..(entryOffset + 3))
               \cup readOffsets(executable, relocationCount,
                                relocationTableOffset, i + 1)

\* the byte offsets getRelocationEntries reads once getMZInfo has returned
entryReads(executable) ==
    LET info == getMZInfo(executable)
    IN  IF info = Null THEN {}
        ELSE IF info.relocations = 0 THEN {}
        ELSE readOffsets(executable, info.relocations,
                         info.relocationTableOffset, 0)

(***************************************************************************)
(* Inputs                                                                  *)
(***************************************************************************)

\* the most statements a generated source text has
MaxStmts == 2

\* the most entries a generated relocation list has
MaxRelocs == 2

\* the longest arbitrary buffer handed to applyChecksum is 20 + MaxExtra bytes
MaxExtra == 3

RECURSIVE SeqsUpTo(_, _)
\* every sequence of at most n elements of S
SeqsUpTo(S, n) ==
    IF n = 0 THEN {<<>>}
    ELSE LET shorter == SeqsUpTo(S, n - 1)
         IN  shorter \cup {Append(q, x) : q \in shorter, x \in S}

RECURSIVE Flatten(_)
Flatten(ss) == IF ss = <<>> THEN <<>> ELSE Head(ss) \o Flatten(Tail(ss))

\* what may precede main: nothing, or "#include <stdio.h>\n"
Preambles ==
    { <<>>,
      <<35, 105, 110, 99, 108, 117, 100, 101, 32, 60, 115, 116, 100, 105, 111,
        46, 104, 62, 10>> }

\* "int main(){", "int main({", "void f(){"
Openers ==
    { <<105, 110, 116, 32, 109, 97, 105, 110, 40, 41, 123>>,
      <<105, 110, 116, 32, 109, 97, 105, 110, 40, 123>>,
      <<118, 111, 105, 100, 32, 102, 40, 41, 123>> }

\* 'printf("A");', 'printf("B\n");' (backslash and n), 'printf("%d",x);',
\* '\nprintf ( "\tC\r<e-acute>" )' (backslash escapes, a two-byte character)
Statements ==
    { <<112, 114, 105, 110, 116, 102, 40, 34, 65, 34, 41, 59>>,
      <<112, 114, 105, 110, 116, 102, 40, 34, 66, 92, 110, 34, 41, 59>>,
      <<112, 114, 105, 110, 116, 102, 40, 34, 37, 100, 34, 44, 120, 41, 59>>,
      <<10, 112, 114, 105, 110, 116, 102, 32, 40, 32, 34, 92, 116, 67, 92, 114,
        233, 34, 32, 41>> }

\* "}" and ""
Closers == { <<125>>, <<>> }

\* the source texts the model compiles
Sources ==
    { pre \o open \o Flatten(body) \o close :
        pre \in Preambles, open \in Openers,
        body \in SeqsUpTo(Statements, MaxStmts), close \in Closers }

\* 'int main(){printf("AA...A");}' with n letters
LongSource(n) ==
    <<105, 110, 116, 32, 109, 97, 105, 110, 40, 41, 123,
      112, 114, 105, 110, 116, 102, 40, 34>>
      \o [i \in 1..n |-> 65] \o <<34, 41, 59, 125>>

\* 'int main(){printf("AA...A");printf("B");}' with n letters A
LongSourceThenB(n) ==
    <<105, 110, 116, 32, 109, 97, 105, 110, 40, 41, 123,
      112, 114, 105, 110, 116, 102, 40, 34>>
      \o [i \in 1..n |-> 65]
      \o <<34, 41, 59, 112, 114, 105, 110, 116, 102, 40, 34, 66, 34, 41, 59, 125>>

\* the arithmetic program of the performance test: #include <stdio.h> and
\* a main with 'int a = 10, b = 20; int sum = a + b;
\* printf("Sum: %d", sum); return 0;'
ArithmeticSource ==
    <<10, 35, 105, 110, 99, 108, 117, 100, 101, 32, 60, 115, 116, 100, 105,
      111, 46, 104, 62, 10, 10, 105, 110, 116, 32, 109, 97, 105, 110, 40,
      41, 32, 123, 10, 32, 32, 32, 32, 105, 110, 116, 32, 97, 32, 61, 32,
      49, 48, 44, 32, 98, 32, 61, 32, 50, 48, 59, 10, 32, 32, 32, 32, 105,
      110, 116, 32, 115, 117, 109, 32, 61, 32, 97, 32, 43, 32, 98, 59, 10,
      32, 32, 32, 32, 112, 114, 105, 110, 116, 102, 40, 34, 83, 117, 109,
      58, 32, 37, 100, 34, 44, 32, 115, 117, 109, 41, 59, 10, 32, 32, 32,
      32, 114, 101, 116, 117, 114, 110, 32, 48, 59, 10, 125, 10>>

\* code buffers: n bytes, byte i being (fill + i) mod 256
Code(n, fill) == [i \in 1..n |-> (fill + i) % 256]

Codes == { Code(n, fill) : n \in {0, 1, 16, 479, 480, 481}, fill \in {0, 143} }

RelocationEntries ==
    { [offset |-> 0, segment |-> 0],
      [offset |-> 258, segment |-> 65535],
      [offset |-> 65535, segment |-> 1] }

RelocationLists == SeqsUpTo(RelocationEntries, MaxRelocs)

\* the options (Partial<MZConfig>) a caller passes
OptionSets ==
    { NoOptions,
      [calculateChecksum |-> TRUE],
      [stackSize |-> 1024, entryPoint |-> 4],
      [dataSize |-> 16],
      [stackSize |-> 256, calculateChecksum |-> TRUE] }

\* arbitrary buffers of 20 bytes and more, bytes 18 and 19 taking any of a
\* few values
Buffers ==
    { setBytes(Code(20 + extra, fill), 18, <<c0, c1>>) :
        extra \in 0..MaxExtra, fill \in {0, 77, 250}, c0 \in {0, 1, 255},
        c1 \in {0, 128, 255} }

(***************************************************************************)
(* The generator as a state machine: one action per static method          *)
(***************************************************************************)

VARIABLES
    instance,       \* the pipeline instance: its class and its configuration
    buildMessages,  \* this.buildMessages; run (not in the code) is the
                    \* invocation that emitted the message
    pc,             \* where each invocation stands
    frame,          \* the arguments and locals of each invocation
    result,         \* the CompileResult each invocation returned
    store,          \* the guest store: the text of each source file in it
    reads,          \* the fsReadFile calls issued since the pipeline was
                    \* last quiet, in order
    writes,         \* the fsWriteFile calls issued since then, in order
    runs            \* the number of invocations started

pipeVars ==
    <<instance, store, buildMessages, pc, frame, result, reads, writes, runs>>

VARIABLES genCall, image, info, entries, valid

genVars == <<genCall, image, info, entries, valid>>

VARIABLES
    compilerServiceRef,  \* useDosCompiler: the service the hook holds, or null
    buildStatus,         \* the state buildStatus of the hook
    lastResult,          \* the state lastResult
    hookError,           \* the state error
    shownMessages,       \* the state buildMessages of the hook
    calls,               \* the invocations of the hook's compile
    builds               \* the number of invocations made

hookVars ==
    <<compilerServiceRef, buildStatus, lastResult, hookError, shownMessages,
      calls, builds>>

\* a result not yet asked for
NotCalled == [called |-> FALSE]

\* the calls of the generator's static methods, with their arguments
GenCalls ==
    {[op |-> "generateHelloWorld"]}
      \cup {[op |-> "generateFromSimpleC", sourceCode |-> s] :
               s \in Sources \cup {ArithmeticSource}}
      \cup {[op |-> "createExecutableWithRelocations", code |-> c,
             relocations |-> r, options |-> o] :
               c \in Codes, r \in RelocationLists, o \in OptionSets}
      \cup {[op |-> "applyChecksum", buffer |-> b] : b \in Buffers}

GenInit ==
    /\ genCall \in GenCalls
    /\ image = NotCalled
    /\ info = NotCalled
    /\ entries = NotCalled
    /\ valid = NotCalled

GenerateHelloWorld ==
    /\ genCall.op = "generateHelloWorld"
    /\ image = NotCalled
    /\ image' = generateHelloWorld
    /\ UNCHANGED <<genCall, info, entries, valid, pipeVars, hookVars>>

GenerateFromSimpleC ==
    /\ genCall.op = "generateFromSimpleC"
    /\ image = NotCalled
    /\ image' = generateFromSimpleC(genCall.sourceCode)
    /\ UNCHANGED <<genCall, info, entries, valid, pipeVars, hookVars>>

CreateExecutableWithRelocations ==
    /\ genCall.op = "createExecutableWithRelocations"
    /\ image = NotCalled
    /\ image' = createExecutableWithRelocations(
                    genCall.code, genCall.relocations, genCall.options)
    /\ UNCHANGED <<genCall, info, entries, valid, pipeVars, hookVars>>

ApplyChecksum ==
    /\ genCall.op = "applyChecksum"
    /\ image = NotCalled
    /\ \E applied \in {applyChecksumIn([executable |-> genCall.buffer],
                                        "executable")} :
          image' = applied.heap[applied.value]
    /\ UNCHANGED <<genCall, info, entries, valid, pipeVars, hookVars>>

GetMZInfo ==
    /\ image # NotCalled
    /\ info = NotCalled
    /\ info' = getMZInfo(image)
    /\ UNCHANGED <<genCall, image, entries, valid, pipeVars, hookVars>>

GetRelocationEntries ==
    /\ image # NotCalled
    /\ entries = NotCalled
    /\ entries' = getRelocationEntries(image)
    /\ UNCHANGED <<genCall, image, info, valid, pipeVars, hookVars>>

GenNext ==
    \/ GenerateHelloWorld
    \/ GenerateFromSimpleC
    \/ CreateExecutableWithRelocations
    \/ ApplyChecksum
    \/ GetMZInfo
    \/ GetRelocationEntries

(***************************************************************************)
(* Diagnostics and validation                                              *)
(***************************************************************************)

\* A message text: a template and what is substituted into it.  The
\* elapsed time of "Build completed in %dms" is not modelled (num is 0).
Text(fmt, args, num) == [fmt |-> fmt, args |-> args, num |-> num]

\* a path that leaves out the project directory
ProjectPathRoot(name) == <<"/C/", name>>

\* `/C/PROJECT/${name}`
ProjectPath(name) == <<"/C/PROJECT/", name>>

\* "int main", "printf", "#include <stdio.h>", "scanf", "strlen",
\* "#include <string.h>", "return"
INT_MAIN == <<105, 110, 116, 32, 109, 97, 105, 110>>
STDIO_H ==
    <<35, 105, 110, 99, 108, 117, 100, 101, 32, 60, 115, 116, 100, 105, 111,
      46, 104, 62>>
STRING_H ==
    <<35, 105, 110, 99, 108, 117, 100, 101, 32, 60, 115, 116, 114, 105, 110,
      103, 46, 104, 62>>
SCANF == <<115, 99, 97, 110, 102>>
STRLEN == <<115, 116, 114, 108, 101, 110>>
RETURN == <<114, 101, 116, 117, 114, 110>>

MainNotFound(sourceFile) ==
    Text("%s:1: error: 'main' function not found", <<sourceFile>>, 0)

ImplicitDeclaration(sourceFile, function) ==
    Text("%s:1: warning: implicit declaration of function '%s'",
         <<sourceFile, function>>, 0)

\* realCompile's validation without the test for 'int main'
realValidateNoMainCheck(sourceCode, sourceFile) ==
    [errors |-> <<>>,
     warnings |->
        IF includes(sourceCode, PRINTF) /\ ~includes(sourceCode, STDIO_H)
        THEN <<ImplicitDeclaration(sourceFile, "printf")>> ELSE <<>>]

\* the validation of CompilerService.realCompile
realValidate(sourceCode, sourceFile) ==
    [errors |->
        IF ~includes(sourceCode, INT_MAIN)
        THEN <<MainNotFound(sourceFile)>> ELSE <<>>,
     warnings |->
        IF includes(sourceCode, PRINTF) /\ ~includes(sourceCode, STDIO_H)
        THEN <<ImplicitDeclaration(sourceFile, "printf")>> ELSE <<>>]

RECURSIVE split(_, _)
\* s.split(c) for a one-character separator
split(s, c) ==
    LET P == {i \in 1..Len(s) : s[i] = c}
    IN  IF P = {} THEN <<s>>
        ELSE LET i == MinOf(P)
             IN  <<SubSeq(s, 1, i - 1)>> \o split(SubSeq(s, i + 1, Len(s)), c)

RECURSIVE skipSpaceBack(_, _)
skipSpaceBack(s, i) ==
    IF i >= 1 /\ IsSpace(s[i]) THEN skipSpaceBack(s, i - 1) ELSE i

\* String.prototype.trim
trim(s) == SubSeq(s, skipSpace(s, 1), skipSpaceBack(s, Len(s)))

startsWith(s, pat) == IsPrefixAt(s, 1, pat)

endsWith(s, pat) == Len(pat) <= Len(s) /\ IsPrefixAt(s, Len(s) - Len(pat) + 1, pat)

\* the test of one line in mockCompile's semicolon check
maybeMissingSemicolon(line) ==
    LET trimmed == trim(line)
    IN  /\ trimmed # <<>>
        /\ ~startsWith(trimmed, <<47, 47>>)
        /\ ~startsWith(trimmed, <<47, 42>>)
        /\ ~startsWith(trimmed, <<35>>)
        /\ ~endsWith(trimmed, <<123>>)
        /\ ~endsWith(trimmed, <<125>>)
        /\ ~endsWith(trimmed, <<59>>)
        /\ (includes(trimmed, PRINTF) \/ includes(trimmed, RETURN))

RECURSIVE semicolonWarnings(_, _, _)
\* lines.forEach((line, index) => ...), from index k on (1-based)
semicolonWarnings(lines, k, sourceFile) ==
    IF k > Len(lines) THEN <<>>
    ELSE (IF maybeMissingSemicolon(lines[k])
          THEN <<Text("%s:%d: warning: statement may be missing semicolon",
                      <<sourceFile>>, k)>>
          ELSE <<>>)
           \o semicolonWarnings(lines, k + 1, sourceFile)

\* the validation of CompilerService.mockCompile
mockValidate(sourceCode, sourceFile) ==
    LET openBraces == matchCount(sourceCode, 123)
        closeBraces == matchCount(sourceCode, 125)
        lines == split(sourceCode, 10)
    IN  [errors |->
            (IF ~includes(sourceCode, INT_MAIN)
             THEN <<MainNotFound(sourceFile)>> ELSE <<>>)
            \o (IF openBraces # closeBraces
                THEN <<Text("%s:%d: error: expected '}'", <<sourceFile>>,
                            Len(lines))>>
                ELSE <<>>),
         warnings |->
            (IF includes(sourceCode, PRINTF) /\ ~includes(sourceCode, STDIO_H)
             THEN <<ImplicitDeclaration(sourceFile, "printf")>> ELSE <<>>)
            \o semicolonWarnings(lines, 1, sourceFile)]

\* a validation that gives up at the first rule violated
validateSourceCodeFailFast(sourceCode, sourceFile) ==
    [success |-> includes(sourceCode, INT_MAIN)
                   /\ matchCount(sourceCode, 123) = matchCount(sourceCode, 125)
                   /\ matchCount(sourceCode, 40) = matchCount(sourceCode, 41),
     errors |->
        IF ~includes(sourceCode, INT_MAIN) THEN <<MainNotFound(sourceFile)>>
        ELSE IF matchCount(sourceCode, 123) # matchCount(sourceCode, 125)
        THEN <<Text("%s:1: error: mismatched braces", <<sourceFile>>, 0)>>
        ELSE IF matchCount(sourceCode, 40) # matchCount(sourceCode, 41)
        THEN <<Text("%s:1: error: mismatched parentheses", <<sourceFile>>, 0)>>
        ELSE <<>>,
     warnings |-> <<>>]

\* WasmCompilerService.validateSourceCode
validateSourceCode(sourceCode, sourceFile) ==
    LET openBraces == matchCount(sourceCode, 123)
        closeBraces == matchCount(sourceCode, 125)
        openParens == matchCount(sourceCode, 40)
        closeParens == matchCount(sourceCode, 41)
        errors ==
            (IF ~includes(sourceCode, INT_MAIN)
             THEN <<MainNotFound(sourceFile)>> ELSE <<>>)
            \o (IF openBraces # closeBraces
                THEN <<Text("%s:1: error: mismatched braces", <<sourceFile>>, 0)>>
                ELSE <<>>)
            \o (IF openParens # closeParens
                THEN <<Text("%s:1: error: mismatched parentheses",
                            <<sourceFile>>, 0)>>
                ELSE <<>>)
        warnings ==
            (IF includes(sourceCode, PRINTF) /\ ~includes(sourceCode, STDIO_H)
             THEN <<ImplicitDeclaration(sourceFile, "printf")>> ELSE <<>>)
            \o (IF includes(sourceCode, SCANF) /\ ~includes(sourceCode, STDIO_H)
                THEN <<ImplicitDeclaration(sourceFile, "scanf")>> ELSE <<>>)
            \o (IF includes(sourceCode, STRLEN) /\ ~includes(sourceCode, STRING_H)
                THEN <<ImplicitDeclaration(sourceFile, "strlen")>> ELSE <<>>)
    IN  [success |-> Len(errors) = 0, errors |-> errors, warnings |-> warnings]

RECURSIVE join(_, _)
\* outputs.join(sep)
join(outputs, sep) ==
    IF outputs = <<>> THEN <<>>
    ELSE IF Len(outputs) = 1 THEN outputs[1]
    ELSE outputs[1] \o sep \o join(Tail(outputs), sep)

\* CompilerService.createMockExecutable: a 14-byte header and a marker text
createMockExecutable(sourceCode) ==
    LET outputs == matchAllFrom(sourceCode, 1, FALSE)
        header == <<77, 90, 144, 0, 3, 0, 0, 0, 4, 0, 0, 0, 255, 255>>
        mockData ==
            encode(<<77, 79, 67, 75, 95, 69, 88, 69, 67, 85, 84, 65, 66, 76, 69, 10>>
                     \o join(outputs, <<10>>) \o <<10>>)
    IN  header \o mockData

(***************************************************************************)
(* The compile pipeline: CompilerService and WasmCompilerService           *)
(***************************************************************************)

\* the most compile invocations one behaviour starts
MaxRuns == 2

\* the most compile invocations in flight at once
MaxOverlap == 2

\* the single-segment ceiling both pipelines test the image against
MaxImageSize == 65535

Procs == 1..MaxOverlap

NoResult == [returned |-> FALSE]

NoFrame == [run |-> 0]

\* the instances: CompilerService under either value of the configuration
\* flag realDosCompilerEnabled, WasmCompilerService quiet or verbose
Instances ==
    {[service |-> "CompilerService", realDosCompilerEnabled |-> b] :
        b \in BOOLEAN}
      \cup {[service |-> "WasmCompilerService",
             config |-> [verbose |-> v, defaultOptimization |-> "O2",
                         defaultWarnings |-> TRUE, defaultDebug |-> FALSE]] :
               v \in BOOLEAN}

\* the backend an instance runs: placeholder, full or extended
Backend(inst) ==
    IF inst.service = "WasmCompilerService" THEN "wasm"
    ELSE IF inst.realDosCompilerEnabled THEN "real" ELSE "mock"

\* the names a caller compiles under
FileNames ==
    { [sourceFile |-> "test.c", outputFile |-> "test.exe"],
      [sourceFile |-> "b.c", outputFile |-> "out.exe"] }

\* the Partial<CompilerOptions> a caller passes
CompilerOptionSets ==
    { NoOptions, [optimization |-> "O3", debug |-> TRUE, customFlags |-> <<"-Wall">>],
      [warnings |-> FALSE] }

\* the texts the guest store may hold: the generated ones, two whose images
\* lie on either side of the ceiling, and one with a second print whose
\* image is at the ceiling
StoredSources ==
    Sources \cup {LongSource(MaxImageSize - 50), LongSource(MaxImageSize - 49),
                  LongSourceThenB(MaxImageSize - 59)}

\* 'int main(){printf("B\n");}' (backslash and n)
OtherSource ==
    <<105, 110, 116, 32, 109, 97, 105, 110, 40, 41, 123,
      112, 114, 105, 110, 116, 102, 40, 34, 66, 92, 110, 34, 41, 59, 125>>

\* the stores: test.c holds one of the texts or is absent, b.c holds one text
Stores(texts) ==
    {[n \in {"b.c"} |-> OtherSource]}
      \cup {[n \in {"test.c", "b.c"} |-> IF n = "b.c" THEN OtherSource ELSE s] :
              s \in texts}

\* no invocation yet
\* useDosCompiler before any call: the initial values of its useState hooks
HookStart ==
    /\ buildStatus = "idle"
    /\ lastResult = [null |-> TRUE]
    /\ hookError = [null |-> TRUE]
    /\ shownMessages = <<>>
    /\ calls = [h \in 1..MaxOverlap |-> [pc |-> "idle"]]
    /\ builds = 0

PipeStart ==
    /\ compilerServiceRef = "CompilerService"
    /\ HookStart
    /\ buildMessages = <<>>
    /\ pc = [p \in Procs |-> "idle"]
    /\ frame = [p \in Procs |-> NoFrame]
    /\ result = [p \in Procs |-> NoResult]
    /\ reads = <<>>
    /\ writes = <<>>
    /\ runs = 0

PipeInit ==
    /\ instance \in Instances
    /\ store \in Stores(Sources)
    /\ PipeStart

\* addBuildMessage
addBuildMessage(messages, type, text, run) ==
    Append(messages, [type |-> type, text |-> text, run |-> run])

\* texts.forEach(text => this.addBuildMessage(type, text))
addBuildMessages(messages, type, texts, run) ==
    messages \o [k \in 1..Len(texts) |-> [type |-> type, text |-> texts[k], run |-> run]]

\* getBuildMessages
getBuildMessages == buildMessages

Free(p) == pc[p] \in {"idle", "done"}

\* an invocation takes the first free slot
FirstFree(p) == Free(p) /\ \A q \in Procs : Free(q) => p <= q

\* no invocation is in flight
Quiet == \A p \in Procs : Free(p)

Return(p, res) ==
    /\ result' = [result EXCEPT ![p] = Spread([returned |-> TRUE], res)]
    /\ pc' = [pc EXCEPT ![p] = "done"]

\* compile without the reset of this.buildMessages
CompileNoReset(p, sourceFile, outputFile, options) ==
    /\ instance.service = "CompilerService"
    /\ FirstFree(p)
    /\ runs < MaxRuns
    /\ runs' = runs + 1
    /\ buildMessages' =
          addBuildMessage(
              addBuildMessage(buildMessages, "info",
                  Text("Starting compilation of %s...", <<sourceFile>>, 0), runs'),
              "info",
              IF instance.realDosCompilerEnabled
              THEN Text("Using real DOS executable generator (Phase 3 POC)", <<>>, 0)
              ELSE Text("Using mock compiler (Phase 2)", <<>>, 0),
              runs')
    /\ reads' = Append(IF Quiet THEN <<>> ELSE reads,
                       [path |-> ProjectPath(sourceFile), run |-> runs'])
    /\ writes' = IF Quiet THEN <<>> ELSE writes
    /\ frame' = [frame EXCEPT ![p] =
                    [run |-> runs', sourceFile |-> sourceFile,
                     outputFile |-> outputFile, options |-> options]]
    /\ result' = [result EXCEPT ![p] = NoResult]
    /\ pc' = [pc EXCEPT ![p] = "read"]
    /\ UNCHANGED <<instance, store, genVars, hookVars>>

\* CompilerService.compile up to the first await: the messages are reset, the
\* backend is announced and realCompile or mockCompile issues the read
Compile(p, sourceFile, outputFile, options) ==
    /\ instance.service = "CompilerService"
    /\ FirstFree(p)
    /\ runs < MaxRuns
    /\ runs' = runs + 1
    /\ buildMessages' =
          addBuildMessage(
              addBuildMessage(<<>>, "info",
                  Text("Starting compilation of %s...", <<sourceFile>>, 0), runs'),
              "info",
              IF instance.realDosCompilerEnabled
              THEN Text("Using real DOS executable generator (Phase 3 POC)", <<>>, 0)
              ELSE Text("Using mock compiler (Phase 2)", <<>>, 0),
              runs')
    /\ reads' = Append(IF Quiet THEN <<>> ELSE reads,
                       [path |-> ProjectPath(sourceFile), run |-> runs'])
    /\ writes' = IF Quiet THEN <<>> ELSE writes
    /\ frame' = [frame EXCEPT ![p] =
                    [run |-> runs', sourceFile |-> sourceFile,
                     outputFile |-> outputFile, options |-> options]]
    /\ result' = [result EXCEPT ![p] = NoResult]
    /\ pc' = [pc EXCEPT ![p] = "read"]
    /\ UNCHANGED <<instance, store, genVars, hookVars>>

\* the catch of a rejected read that also reports "Compilation failed."
ReadFailedReportsTwice(p) ==
    /\ pc[p] = "read"
    /\ LET f == frame[p]
           notFound == Text("Source file not found: %s", <<f.sourceFile>>, 0)
       IN  /\ buildMessages' =
                 addBuildMessage(
                     addBuildMessage(buildMessages, "error", notFound, f.run),
                     "error", Text("Compilation failed.", <<>>, 0), f.run)
           /\ frame' = [frame EXCEPT ![p] = Spread(f, [readRejected |-> TRUE])]
           /\ Return(p, [success |-> FALSE, errors |-> <<notFound>>,
                         warnings |-> <<>>, outputFile |-> f.outputFile,
                         rawOutput |-> <<Text("Error: Source file not found: %s",
                                              <<f.sourceFile>>, 0)>>])
    /\ UNCHANGED <<instance, store, reads, writes, runs, genVars, hookVars>>

\* the catch of a rejected read that returns the failure without a diagnostic
ReadFailedSilent(p) ==
    /\ pc[p] = "read"
    /\ LET f == frame[p]
           notFound == Text("Source file not found: %s", <<f.sourceFile>>, 0)
       IN  /\ frame' = [frame EXCEPT ![p] = Spread(f, [readRejected |-> TRUE])]
           /\ Return(p, [success |-> FALSE, errors |-> <<notFound>>,
                         warnings |-> <<>>, outputFile |-> f.outputFile,
                         rawOutput |-> <<Text("Error: Source file not found: %s",
                                              <<f.sourceFile>>, 0)>>])
    /\ UNCHANGED <<instance, store, buildMessages, reads, writes, runs, genVars,
                   hookVars>>

\* readTextFile rejects (the file is absent or the store fails): the catch of
\* realCompile or mockCompile
ReadFailed(p) ==
    /\ pc[p] = "read"
    /\ LET f == frame[p]
           notFound == Text("Source file not found: %s", <<f.sourceFile>>, 0)
       IN  /\ buildMessages' = addBuildMessage(buildMessages, "error", notFound, f.run)
           /\ frame' = [frame EXCEPT ![p] = Spread(f, [readRejected |-> TRUE])]
           /\ Return(p, [success |-> FALSE, errors |-> <<notFound>>,
                         warnings |-> <<>>, outputFile |-> f.outputFile,
                         rawOutput |-> <<Text("Error: Source file not found: %s",
                                              <<f.sourceFile>>, 0)>>])
    /\ UNCHANGED <<instance, store, reads, writes, runs, genVars, hookVars>>

\* the test realCompile makes of the generated image
invalidExecutable(executable) ==
    Len(executable) = 0 \/ Len(executable) > MaxImageSize

\* realCompile from the source text to its return or to the write
RealCompile(p) ==
    /\ pc[p] = "read"
    /\ Backend(instance) = "real"
    /\ frame[p].sourceFile \in DOMAIN store
    /\ \E f \in {frame[p]} :
       \E sourceCode \in {store[f.sourceFile]} :
       \E v \in {realValidate(sourceCode, f.sourceFile)} :
       LET m1 == addBuildMessage(buildMessages, "info",
                    Text("Compiling %s with DOS Executable Generator...",
                         <<f.sourceFile>>, 0), f.run)
           m2 == addBuildMessages(m1, "warning", v.warnings, f.run)
           m3 == addBuildMessage(m2, "info",
                    Text("Generating DOS MZ executable...", <<>>, 0), f.run)
           invalid == Text("Failed to generate valid DOS executable", <<>>, 0)
       IN  IF Len(v.errors) > 0
           THEN /\ buildMessages' = addBuildMessages(m2, "error", v.errors, f.run)
                /\ Return(p, [success |-> FALSE, errors |-> v.errors,
                              warnings |-> v.warnings, outputFile |-> f.outputFile,
                              rawOutput |-> v.errors])
                /\ frame' = [frame EXCEPT ![p] =
                                Spread(f, [sourceCode |-> sourceCode])]
                /\ UNCHANGED writes
           ELSE \E executable \in {generateFromSimpleC(sourceCode)} :
                IF invalidExecutable(executable)
                THEN /\ buildMessages' = addBuildMessage(m3, "error", invalid, f.run)
                     /\ Return(p, [success |-> FALSE, errors |-> <<invalid>>,
                                   warnings |-> v.warnings,
                                   outputFile |-> f.outputFile,
                                   rawOutput |->
                                       <<Text("Error: Invalid DOS executable generated",
                                              <<>>, 0)>>])
                     /\ frame' = [frame EXCEPT ![p] =
                                     Spread(f, [sourceCode |-> sourceCode])]
                     /\ UNCHANGED writes
                ELSE /\ buildMessages' = m3
                     /\ writes' = Append(writes,
                                      [path |-> ProjectPath(f.outputFile),
                                       data |-> executable, run |-> f.run])
                     /\ frame' = [frame EXCEPT ![p] =
                                     Spread(f, [sourceCode |-> sourceCode,
                                                warnings |-> v.warnings,
                                                executable |-> executable])]
                     /\ pc' = [pc EXCEPT ![p] = "write"]
                     /\ UNCHANGED result
    /\ UNCHANGED <<instance, store, reads, runs, genVars, hookVars>>

\* mockCompile from the source text to the simulated delay
MockCompile(p) ==
    /\ pc[p] = "read"
    /\ Backend(instance) = "mock"
    /\ frame[p].sourceFile \in DOMAIN store
    /\ buildMessages' = addBuildMessage(buildMessages, "info",
                            Text("Compiling %s...", <<frame[p].sourceFile>>, 0),
                            frame[p].run)
    /\ frame' = [frame EXCEPT ![p] = Spread(frame[p], [sourceCode |-> store[frame[p].sourceFile]])]
    /\ pc' = [pc EXCEPT ![p] = "delay"]
    /\ UNCHANGED <<instance, store, result, reads, writes, runs, genVars, hookVars>>

\* mockCompile after the delay, to its return or to the write
MockValidate(p) ==
    /\ pc[p] = "delay"
    /\ \E f \in {frame[p]} :
       \E v \in {mockValidate(f.sourceCode, f.sourceFile)} :
       LET m1 == addBuildMessages(buildMessages, "warning", v.warnings, f.run)
           m2 == addBuildMessages(m1, "error", v.errors, f.run)
       IN  IF Len(v.errors) > 0
           THEN /\ buildMessages' = addBuildMessage(m2, "error",
                                        Text("Compilation failed.", <<>>, 0), f.run)
                /\ Return(p, [success |-> FALSE, errors |-> v.errors,
                              warnings |-> v.warnings, outputFile |-> f.outputFile,
                              rawOutput |-> v.warnings \o v.errors])
                /\ UNCHANGED <<frame, writes>>
           ELSE \E mockExecutable \in {createMockExecutable(f.sourceCode)} :
                /\ buildMessages' = m2
                /\ writes' = Append(writes, [path |-> ProjectPath(f.outputFile),
                                             data |-> mockExecutable, run |-> f.run])
                /\ frame' = [frame EXCEPT ![p] =
                                Spread(f, [warnings |-> v.warnings,
                                           executable |-> mockExecutable])]
                /\ pc' = [pc EXCEPT ![p] = "write"]
                /\ UNCHANGED result
    /\ UNCHANGED <<instance, store, reads, runs, genVars, hookVars>>

\* the resolved write of an instance that kept the invocation's names and
\* image in a field of its own, which the invocation started last overwrites
WriteDoneSharedFrame(p) ==
    /\ pc[p] = "write"
    /\ LET f == frame[CHOOSE q \in Procs :
                        /\ "executable" \in DOMAIN frame[q]
                        /\ \A r \in Procs :
                              "executable" \in DOMAIN frame[r] =>
                                  frame[r].run <= frame[q].run]
           real == Backend(instance) = "real"
           m1 == addBuildMessage(buildMessages, "success",
                    IF real
                    THEN Text("Real DOS compilation successful: %s", <<f.outputFile>>, 0)
                    ELSE Text("Compilation successful: %s", <<f.outputFile>>, 0),
                    f.run)
           m2 == IF real
                 THEN addBuildMessage(m1, "info",
                          Text("Executable size: %d bytes", <<>>, Len(f.executable)),
                          f.run)
                 ELSE m1
       IN  /\ buildMessages' = addBuildMessage(m2, "info",
                                   Text("Build completed in %dms", <<>>, 0), f.run)
           /\ Return(p, [success |-> TRUE, errors |-> <<>>,
                         warnings |-> f.warnings, outputFile |-> f.outputFile,
                         executable |-> f.executable,
                         rawOutput |-> IF f.warnings = <<>>
                                       THEN <<Text("Compilation successful", <<>>, 0)>>
                                       ELSE f.warnings])
    /\ UNCHANGED <<instance, store, frame, reads, writes, runs, genVars, hookVars>>

\* writeBinaryFile resolves: the success messages and the successful result
WriteDone(p) ==
    /\ pc[p] = "write"
    /\ LET f == frame[p]
           real == Backend(instance) = "real"
           m1 == addBuildMessage(buildMessages, "success",
                    IF real
                    THEN Text("Real DOS compilation successful: %s", <<f.outputFile>>, 0)
                    ELSE Text("Compilation successful: %s", <<f.outputFile>>, 0),
                    f.run)
           m2 == IF real
                 THEN addBuildMessage(m1, "info",
                          Text("Executable size: %d bytes", <<>>, Len(f.executable)),
                          f.run)
                 ELSE m1
       IN  /\ buildMessages' = addBuildMessage(m2, "info",
                                   Text("Build completed in %dms", <<>>, 0), f.run)
           /\ Return(p, [success |-> TRUE, errors |-> <<>>,
                         warnings |-> f.warnings, outputFile |-> f.outputFile,
                         executable |-> f.executable,
                         rawOutput |-> IF f.warnings = <<>>
                                       THEN <<Text("Compilation successful", <<>>, 0)>>
                                       ELSE f.warnings])
    /\ UNCHANGED <<instance, store, frame, reads, writes, runs, genVars, hookVars>>

\* what the store may throw: an Error with a message, or something else
StoreErrors == {[isError |-> TRUE, message |-> "disk full"], [isError |-> FALSE]}

\* a catch that returns the image it could not write
WriteFailedKeepsImage(p, error) ==
    /\ pc[p] = "write"
    /\ LET f == frame[p]
           errorMessage == IF error.isError THEN error.message ELSE "Unknown error"
       IN  /\ buildMessages' = addBuildMessage(buildMessages, "error",
                                   Text("Compilation failed: %s", <<errorMessage>>, 0),
                                   f.run)
           /\ Return(p, [success |-> FALSE, errors |-> <<Text(errorMessage, <<>>, 0)>>,
                         warnings |-> <<>>, outputFile |-> f.outputFile,
                         executable |-> f.executable,
                         rawOutput |-> <<Text(errorMessage, <<>>, 0)>>])
           /\ frame' = [frame EXCEPT ![p] = Spread(f, [writeRejected |-> error])]
    /\ UNCHANGED <<instance, store, reads, writes, runs, genVars, hookVars>>

\* a compile that announced its success before the write was awaited
WriteFailedAfterSuccessMessage(p, error) ==
    /\ pc[p] = "write"
    /\ LET f == frame[p]
           errorMessage == IF error.isError THEN error.message ELSE "Unknown error"
       IN  /\ buildMessages' =
                 addBuildMessage(
                     addBuildMessage(buildMessages, "success",
                         Text("Real DOS compilation successful: %s",
                              <<f.outputFile>>, 0), f.run),
                     "error", Text("Compilation failed: %s", <<errorMessage>>, 0),
                     f.run)
           /\ Return(p, [success |-> FALSE, errors |-> <<Text(errorMessage, <<>>, 0)>>,
                         warnings |-> <<>>, outputFile |-> f.outputFile,
                         rawOutput |-> <<Text(errorMessage, <<>>, 0)>>])
           /\ frame' = [frame EXCEPT ![p] = Spread(f, [writeRejected |-> error])]
    /\ UNCHANGED <<instance, store, reads, writes, runs, genVars, hookVars>>

\* writeBinaryFile rejects: the catch of compile; writeRejected (not in the
\* code) keeps what the store threw
WriteFailed(p, error) ==
    /\ pc[p] = "write"
    /\ LET f == frame[p]
           errorMessage == IF error.isError THEN error.message ELSE "Unknown error"
       IN  /\ buildMessages' = addBuildMessage(buildMessages, "error",
                                   Text("Compilation failed: %s", <<errorMessage>>, 0),
                                   f.run)
           /\ Return(p, [success |-> FALSE, errors |-> <<Text(errorMessage, <<>>, 0)>>,
                         warnings |-> <<>>, outputFile |-> f.outputFile,
                         rawOutput |-> <<Text(errorMessage, <<>>, 0)>>])
           /\ frame' = [frame EXCEPT ![p] = Spread(f, [writeRejected |-> error])]
    /\ UNCHANGED <<instance, store, reads, writes, runs, genVars, hookVars>>

BoolStr(b) == IF b THEN "true" ELSE "false"

\* WasmCompilerService.mergeOptions
mergeOptions(options, config) ==
    [optimization |-> Field(options, "optimization", config.defaultOptimization),
     warnings |-> Field(options, "warnings", config.defaultWarnings),
     debug |-> Field(options, "debug", config.defaultDebug),
     customFlags |-> Field(options, "customFlags", <<>>),
     outputFormat |-> Field(options, "outputFormat", "exe")]

\* an outcome in which the debug option leaves a mark in the executable
compilationOutcomeDebugMark(messages, executable, options, config, run) ==
    [messages |-> messages,
     value |-> [success |-> TRUE, errors |-> <<>>, warnings |-> <<>>,
                executable |-> IF options.debug THEN Append(executable, 204)
                               ELSE executable,
                rawOutput |-> <<Text("Compilation successful", <<>>, 0)>>]]

\* performCompilation once generateFromSimpleC has returned executable
compilationOutcome(messages, executable, options, config, run) ==
    LET m1 == addBuildMessage(messages, "info",
                 Text("Generating DOS executable with enhanced options...", <<>>, 0),
                 run)
        m2 == addBuildMessages(m1, "info",
                 << Text("Applied optimization level: %s", <<options.optimization>>, 0),
                    Text("Warnings enabled: %s", <<BoolStr(options.warnings)>>, 0),
                    Text("Debug info: %s", <<BoolStr(options.debug)>>, 0) >>
                   \o (IF Len(options.customFlags) > 0
                       THEN <<Text("Custom flags: %s", options.customFlags, 0)>>
                       ELSE <<>>),
                 run)
    IN  IF Len(executable) = 0 \/ Len(executable) > MaxImageSize
        THEN [messages |-> m1,
              value |-> [success |-> FALSE,
                         errors |-> <<Text("Failed to generate valid DOS executable",
                                           <<>>, 0)>>,
                         warnings |-> <<>>,
                         rawOutput |-> <<Text("Error: Invalid DOS executable generated",
                                              <<>>, 0)>>]]
        ELSE [messages |-> IF config.verbose THEN m2 ELSE m1,
              value |-> [success |-> TRUE, errors |-> <<>>, warnings |-> <<>>,
                         executable |-> executable,
                         rawOutput |-> <<Text("Compilation successful", <<>>, 0)>>]]

\* WasmCompilerService.performCompilation: the messages it appends and the
\* record it resolves with (it has no await of its own and cannot throw)
performCompilation(messages, sourceCode, options, config, run) ==
    compilationOutcome(messages, generateFromSimpleC(sourceCode), options,
                       config, run)

\* WasmCompilerService.compile up to its await: validation, then
\* performCompilation, whose body runs to its end before compile is suspended
WasmCompile(p, sourceCode, sourceFile, outputFile, options) ==
    /\ instance.service = "WasmCompilerService"
    /\ FirstFree(p)
    /\ runs < MaxRuns
    /\ runs' = runs + 1
    /\ \E compilerOptions \in {mergeOptions(options, instance.config)},
          validationResult \in {validateSourceCode(sourceCode, sourceFile)} :
       LET m1 == addBuildMessage(
                    addBuildMessage(<<>>, "info",
                        Text("Starting WASM compilation of %s...", <<sourceFile>>, 0),
                        runs'),
                    "info",
                    Text("Optimization: %s, Warnings: %s, Debug: %s",
                         <<compilerOptions.optimization,
                           BoolStr(compilerOptions.warnings),
                           BoolStr(compilerOptions.debug)>>, 0),
                    runs')
       IN  IF ~validationResult.success
           THEN /\ buildMessages' =
                      addBuildMessages(
                          addBuildMessages(m1, "error", validationResult.errors, runs'),
                          "warning", validationResult.warnings, runs')
                /\ frame' = [frame EXCEPT ![p] =
                                [run |-> runs', sourceFile |-> sourceFile,
                                 sourceCode |-> sourceCode,
                                 outputFile |-> outputFile, options |-> options]]
                /\ Return(p, [success |-> FALSE,
                              errors |-> validationResult.errors,
                              warnings |-> validationResult.warnings,
                              outputFile |-> outputFile,
                              rawOutput |-> validationResult.errors])
           ELSE \E compiled \in
                    {performCompilation(
                         addBuildMessages(m1, "warning",
                                          validationResult.warnings, runs'),
                         sourceCode, compilerOptions, instance.config, runs')} :
                /\ buildMessages' = compiled.messages
                /\ frame' = [frame EXCEPT ![p] =
                                [run |-> runs', sourceFile |-> sourceFile,
                                 sourceCode |-> sourceCode,
                                 outputFile |-> outputFile, options |-> options,
                                 warnings |-> validationResult.warnings,
                                 compilationResult |-> compiled.value]]
                /\ result' = [result EXCEPT ![p] = NoResult]
                /\ pc' = [pc EXCEPT ![p] = "await"]
    /\ reads' = (IF Quiet THEN <<>> ELSE reads)
    /\ writes' = (IF Quiet THEN <<>> ELSE writes)
    /\ UNCHANGED <<instance, store, genVars, hookVars>>

\* WasmCompilerService.compile after its await
WasmResume(p) ==
    /\ pc[p] = "await"
    /\ LET f == frame[p]
           c == f.compilationResult
       IN  IF ~c.success
           THEN /\ buildMessages' =
                      addBuildMessages(
                          addBuildMessages(buildMessages, "error", c.errors, f.run),
                          "warning", c.warnings, f.run)
                /\ Return(p, [success |-> FALSE, errors |-> c.errors,
                              warnings |-> f.warnings \o c.warnings,
                              outputFile |-> f.outputFile,
                              rawOutput |-> c.rawOutput])
           ELSE /\ buildMessages' =
                      addBuildMessages(
                          addBuildMessage(buildMessages, "success",
                              Text("WASM compilation successful: %s",
                                   <<f.outputFile>>, 0),
                              f.run),
                          "info",
                          << Text("Executable size: %d bytes", <<>>, Len(c.executable)),
                             Text("Build completed in %dms", <<>>, 0) >>,
                          f.run)
                /\ Return(p, [success |-> TRUE, errors |-> <<>>,
                              warnings |-> f.warnings \o c.warnings,
                              outputFile |-> f.outputFile,
                              executable |-> c.executable,
                              rawOutput |-> IF f.warnings = <<>>
                                            THEN <<Text("Compilation successful", <<>>, 0)>>
                                            ELSE f.warnings])
    /\ UNCHANGED <<instance, store, frame, reads, writes, runs, genVars, hookVars>>

\* the steps of an invocation already started
PipeStep(p) ==
    \/ ReadFailed(p)
    \/ RealCompile(p)
    \/ MockCompile(p)
    \/ MockValidate(p)
    \/ WriteDone(p)
    \/ \E error \in StoreErrors : WriteFailed(p, error)
    \/ WasmResume(p)

\* a caller that awaits each compile before it starts the next
SeqNext ==
    \E p \in Procs :
        \/ /\ Quiet
           /\ \E n \in FileNames :
                 Compile(p, n.sourceFile, n.outputFile, NoOptions)
        \/ /\ Quiet
           /\ \E n \in FileNames, options \in CompilerOptionSets :
                 /\ n.sourceFile \in DOMAIN store
                 /\ WasmCompile(p, store[n.sourceFile], n.sourceFile,
                                n.outputFile, options)
        \/ PipeStep(p)

vars == <<genVars, pipeVars, hookVars>>

\* the generator alone: the pipeline does not move
SpecGenInit ==
    /\ instance = [service |-> "CompilerService", realDosCompilerEnabled |-> TRUE]
    /\ store = [n \in {"b.c"} |-> OtherSource]
    /\ PipeInit
    /\ GenInit

SpecGen == SpecGenInit /\ [][GenNext]_vars

\* the ArrayBuffers the inspected arrays are windows of: images, images
\* behind a few other bytes, and a buffer that is no image
ArrayBuffers ==
    { pad \o img :
        pad \in {<<>>, <<0, 0>>, <<77, 90, 0, 0>>},
        img \in {generateHelloWorld, Code(40, 0)}
                  \cup {createExecutableWithRelocations(Code(1, 0), r, NoOptions) :
                          r \in RelocationLists} }

\* the arrays handed to the inspecting methods: whole buffers, subarrays
\* that begin past the first bytes, and arrays cut short
InspectCalls ==
    { [op |-> "inspect", array |-> Uint8Array(w[1], w[2], w[3])] :
        w \in { x \in ArrayBuffers \X {0, 2, 4} \X (0..44) :
                  /\ x[2] + x[3] <= Len(x[1])
                  /\ x[3] \in {0, 27, 28, 34, 36, 40, Len(x[1]) - x[2]} } }

InspectInit ==
    /\ instance = [service |-> "CompilerService", realDosCompilerEnabled |-> TRUE]
    /\ store = [n \in {"b.c"} |-> OtherSource]
    /\ PipeStart
    /\ genCall \in InspectCalls
    /\ image = NotCalled
    /\ info = NotCalled
    /\ entries = NotCalled
    /\ valid = NotCalled

IsValidMZExecutableView ==
    /\ genCall.op = "inspect"
    /\ valid = NotCalled
    /\ valid' = [called |-> TRUE, value |-> isValidMZExecutableView(genCall.array)]
    /\ UNCHANGED <<genCall, image, info, entries, pipeVars, hookVars>>

GetMZInfoView ==
    /\ genCall.op = "inspect"
    /\ info = NotCalled
    /\ info' = getMZInfoView(genCall.array)
    /\ UNCHANGED <<genCall, image, entries, valid, pipeVars, hookVars>>

GetRelocationEntriesView ==
    /\ genCall.op = "inspect"
    /\ entries = NotCalled
    /\ entries' = getRelocationEntriesView(genCall.array)
    /\ UNCHANGED <<genCall, image, info, valid, pipeVars, hookVars>>

InspectNext ==
    \/ IsValidMZExecutableView
    \/ GetMZInfoView
    \/ GetRelocationEntriesView

\* the inspecting methods alone, on arrays of any origin
SpecInspect == InspectInit /\ [][InspectNext]_vars

\* one pipeline instance, its invocations one after the other
Init ==
    /\ genCall = [op |-> "generateHelloWorld"]
    /\ GenInit
    /\ PipeInit

Spec == Init /\ [][SeqNext]_vars

\* the real backend alone, over a store that may hold the long texts
RealInit ==
    /\ genCall = [op |-> "generateHelloWorld"]
    /\ GenInit
    /\ instance = [service |-> "CompilerService", realDosCompilerEnabled |-> TRUE]
    /\ store \in Stores(StoredSources)
    /\ PipeStart

RealNext ==
    \E p \in Procs :
        \/ /\ Quiet
           /\ \E n \in FileNames :
                 Compile(p, n.sourceFile, n.outputFile, NoOptions)
        \/ ReadFailed(p)
        \/ RealCompile(p)
        \/ WriteDone(p)
        \/ \E error \in StoreErrors : WriteFailed(p, error)

SpecReal == RealInit /\ [][RealNext]_vars

(***************************************************************************)
(* useDosCompiler: the hook over a service whose compile settles later     *)
(***************************************************************************)

\* the most invocations of the hook's compile in a behaviour
MaxBuilds == 3

\* what the awaited service.compile may resolve with
ServiceResults(outputFile) ==
    { [success |-> TRUE, errors |-> <<>>, warnings |-> <<>>,
       outputFile |-> outputFile, executable |-> generateHelloWorld],
      [success |-> FALSE,
       errors |-> <<Text("Source file not found: %s", <<"test.c">>, 0)>>,
       warnings |-> <<>>, outputFile |-> outputFile] }

\* what it may reject with: an Error with a message, or something else
ServiceThrows == {[isError |-> TRUE, message |-> "boom"], [isError |-> FALSE]}

HookInit ==
    /\ genCall = [op |-> "generateHelloWorld"]
    /\ GenInit
    /\ instance = [service |-> "CompilerService", realDosCompilerEnabled |-> TRUE]
    /\ store = [n \in {"b.c"} |-> OtherSource]
    /\ compilerServiceRef \in {"CompilerService", "null"}
    /\ HookStart
    /\ buildMessages \in {<<>>, <<[type |-> "info",
                                   text |-> Text("Starting compilation of %s...",
                                                 <<"test.c">>, 0),
                                   run |-> 0]>>}
    /\ pc = [p \in Procs |-> "idle"]
    /\ frame = [p \in Procs |-> NoFrame]
    /\ result = [p \in Procs |-> NoResult]
    /\ reads = <<>>
    /\ writes = <<>>
    /\ runs = 0

\* a slot of calls is free for a new invocation
HookFree(h) == calls[h].pc \in {"idle", "returned", "thrown"}

\* compile of the hook while no service is held: it throws at once
HookCompileThrows(h) ==
    /\ HookFree(h)
    /\ builds < MaxBuilds
    /\ compilerServiceRef = "null"
    /\ calls' = [calls EXCEPT ![h] =
                    [pc |-> "thrown",
                     message |-> "CompilerService not initialized"]]
    /\ builds' = builds + 1
    /\ UNCHANGED <<compilerServiceRef, buildStatus, lastResult, hookError,
                   shownMessages, genVars, pipeVars>>

\* compile of the hook up to its await
HookCompile(h, sourceFile, outputFile) ==
    /\ HookFree(h)
    /\ builds < MaxBuilds
    /\ compilerServiceRef # "null"
    /\ buildStatus' = "building"
    /\ hookError' = [null |-> TRUE]
    /\ shownMessages' = <<>>
    /\ calls' = [calls EXCEPT ![h] =
                    [pc |-> "await", sourceFile |-> sourceFile,
                     outputFile |-> outputFile]]
    /\ builds' = builds + 1
    /\ UNCHANGED <<compilerServiceRef, lastResult, genVars, pipeVars>>

\* a resumption that reports success whatever the result says
HookResolveAlwaysSuccess(h, res) ==
    /\ calls[h].pc = "await"
    /\ res.outputFile = calls[h].outputFile
    /\ shownMessages' = getBuildMessages
    /\ lastResult' = res
    /\ buildStatus' = "success"
    /\ calls' = [calls EXCEPT ![h] =
                    [pc |-> "returned", rejected |-> FALSE, result |-> res]]
    /\ UNCHANGED <<compilerServiceRef, hookError, builds, genVars, pipeVars>>

\* the awaited compile resolves with res: the rest of the try block
HookResolve(h, res) ==
    /\ calls[h].pc = "await"
    /\ res.outputFile = calls[h].outputFile
    /\ shownMessages' = getBuildMessages
    /\ lastResult' = res
    /\ buildStatus' = (IF res.success THEN "success" ELSE "error")
    /\ calls' = [calls EXCEPT ![h] =
                    [pc |-> "returned", rejected |-> FALSE, result |-> res]]
    /\ UNCHANGED <<compilerServiceRef, hookError, builds, genVars, pipeVars>>

\* the awaited compile rejects with err: the catch block
HookReject(h, err) ==
    /\ calls[h].pc = "await"
    /\ \E errorMessage \in {IF err.isError THEN err.message
                             ELSE "Compilation failed"} :
       \E failedResult \in {[success |-> FALSE,
                              errors |-> <<Text(errorMessage, <<>>, 0)>>,
                              warnings |-> <<>>,
                              outputFile |-> calls[h].outputFile,
                              rawOutput |-> <<Text(errorMessage, <<>>, 0)>>]} :
          /\ hookError' = [null |-> FALSE, message |-> errorMessage]
          /\ buildStatus' = "error"
          /\ lastResult' = failedResult
          /\ calls' = [calls EXCEPT ![h] =
                          [pc |-> "returned", rejected |-> TRUE,
                           result |-> failedResult]]
    /\ UNCHANGED <<compilerServiceRef, shownMessages, builds, genVars, pipeVars>>

\* clearBuildMessages of the hook
ClearBuildMessages ==
    /\ shownMessages' = <<>>
    /\ buildMessages' = (IF compilerServiceRef # "null" THEN <<>> ELSE buildMessages)
    /\ UNCHANGED <<compilerServiceRef, buildStatus, lastResult, hookError, calls,
                   builds, genVars, instance, store, pc, frame, result, reads,
                   writes, runs>>

\* clearError of the hook
ClearError ==
    /\ hookError' = [null |-> TRUE]
    /\ UNCHANGED <<compilerServiceRef, buildStatus, lastResult, shownMessages,
                   calls, builds, genVars, pipeVars>>

HookNext ==
    \/ \E h \in 1..MaxOverlap : HookCompileThrows(h)
    \/ \E h \in 1..MaxOverlap, n \in FileNames :
          HookCompile(h, n.sourceFile, n.outputFile)
    \/ \E h \in 1..MaxOverlap, n \in FileNames :
          \E res \in ServiceResults(n.outputFile) : HookResolve(h, res)
    \/ \E h \in 1..MaxOverlap, err \in ServiceThrows : HookReject(h, err)
    \/ ClearBuildMessages
    \/ ClearError

\* the hook, its invocations free to overlap
SpecHook == HookInit /\ [][HookNext]_vars

(***************************************************************************)
(* Properties                                                              *)
(***************************************************************************)

\* the call made returns a generated image, and it has returned
Generated ==
    /\ genCall.op \in {"generateHelloWorld", "generateFromSimpleC",
                       "createExecutableWithRelocations"}
    /\ image # NotCalled

\* the writeBinaryFile calls and the readTextFile calls of one invocation
WritesOf(run) == SelectSeq(writes, LAMBDA w : w.run = run)
ReadsOf(run) == SelectSeq(reads, LAMBDA r : r.run = run)

\* the error diagnostics of one invocation
ErrorsOf(run) ==
    SelectSeq(buildMessages, LAMBDA m : m.run = run /\ m.type = "error")

\* invocation p has returned, having had the source text in hand
ReturnedWithSource(p) ==
    result[p].returned /\ "sourceCode" \in DOMAIN frame[p]

\* one of the errors of a result has the given template
HasError(res, fmts) == \E k \in 1..Len(res.errors) : res.errors[k].fmt \in fmts

\* C1: when compile with the real backend returns success, the executable
\* is longer than 28 bytes and at most 65535, begins 4D 5A, and the single
\* write of the invocation went to /C/PROJECT/<outputFile> with the bytes
\* returned; when the image generated from the source is empty or longer than
\* 65535 bytes the result is a failure and the invocation wrote nothing.
C1_RealSuccessPersistsImage ==
    \A p \in Procs :
        (Backend(instance) = "real" /\ result[p].returned) =>
            /\ result[p].success =>
                  /\ Len(result[p].executable) > 28
                  /\ Len(result[p].executable) <= 65535
                  /\ result[p].executable[1] = 77
                  /\ result[p].executable[2] = 90
                  /\ WritesOf(frame[p].run) =
                        <<[path |-> <<"/C/PROJECT/", frame[p].outputFile>>,
                           data |-> result[p].executable,
                           run |-> frame[p].run]>>
            /\ ( /\ "sourceCode" \in DOMAIN frame[p]
                 /\ \E generated \in {generateFromSimpleC(frame[p].sourceCode)} :
                       Len(generated) = 0 \/ Len(generated) > 65535 )
                  => (~result[p].success /\ WritesOf(frame[p].run) = <<>>)

\* a successful real compile of a text with two print statements
C1_Witness ==
    \E p \in Procs :
        /\ Backend(instance) = "real"
        /\ result[p].returned
        /\ result[p].success
        /\ Len(result[p].executable) > 60
        /\ Len(WritesOf(frame[p].run)) = 1

\* C2: every image returned by generateHelloWorld, generateFromSimpleC or
\* createExecutableWithRelocations satisfies the size law
\* (pagesInFile - 1) * 512 + bytesOnLastPage = length of the image.
C2_SizeLaw ==
    Generated =>
        (getUint16(image, 4) - 1) * 512 + getUint16(image, 2) = Len(image)

\* C3: getRelocationEntries of the image createExecutableWithRelocations
\* builds from a code buffer and a relocation list returns that list: as many
\* entries, the same values, the same order.
C3_RelocationRoundTrip ==
    (genCall.op = "createExecutableWithRelocations" /\ entries # NotCalled) =>
        entries = [null |-> FALSE, entries |-> genCall.relocations]

\* a list of two different entries was written and read back
C3_Witness ==
    /\ genCall.op = "createExecutableWithRelocations"
    /\ entries # NotCalled
    /\ Len(genCall.relocations) >= 2
    /\ genCall.relocations[1] # genCall.relocations[2]
    /\ Len(genCall.code) > 0
    /\ entries.entries = genCall.relocations

RECURSIVE TotalOfWords(_, _, _)
\* the sum modulo 2^16 of the words lo..hi of a buffer, none left out
TotalOfWords(buffer, lo, hi) ==
    IF lo > hi THEN 0
    ELSE IF lo = hi THEN buffer[2 * lo + 1] + 256 * buffer[2 * lo + 2]
    ELSE LET mid == (lo + hi) \div 2
         IN  (TotalOfWords(buffer, lo, mid) + TotalOfWords(buffer, mid + 1, hi))
               % 65536

\* a buffer with one zero byte appended when its length is odd
EvenPadded(buffer) ==
    IF Len(buffer) % 2 = 0 THEN buffer ELSE buffer \o <<0>>

\* the call applies a checksum: applyChecksum itself, or
\* createExecutableWithRelocations with calculateChecksum = true
Checksummed ==
    /\ image # NotCalled
    /\ \/ genCall.op = "applyChecksum"
       \/ /\ genCall.op = "createExecutableWithRelocations"
          /\ Field(genCall.options, "calculateChecksum", FALSE)

\* C4: after applyChecksum on a buffer of at least 20 bytes, and for an image
\* built with calculateChecksum = true, the sum of all the 16-bit
\* little-endian words of the even-padded buffer, the checksum word included,
\* is 0 modulo 2^16.
C4_ChecksumLaw ==
    Checksummed =>
        TotalOfWords(EvenPadded(image), 0, (Len(EvenPadded(image)) \div 2) - 1) = 0

\* applyChecksum has acted on a buffer of odd length whose checksum field
\* held something else before
C4_Witness ==
    /\ genCall.op = "applyChecksum"
    /\ image # NotCalled
    /\ Len(image) % 2 = 1
    /\ genCall.buffer[19] # 0
    /\ image # genCall.buffer

\* C5: for every image returned by generateHelloWorld, generateFromSimpleC
\* or createExecutableWithRelocations, isValidMZExecutable is true and
\* getMZInfo returns a header, not null, whose signature is 0x5A4D.
C5_GeneratedImageIsValid ==
    Generated =>
        /\ isValidMZExecutable(image)
        /\ info # NotCalled => (info # Null /\ info.signature = 23117)

\* getMZInfo has decoded the image of a source text with a print statement
C5_Witness ==
    /\ genCall.op = "generateFromSimpleC"
    /\ image # NotCalled
    /\ Len(image) > 50
    /\ info # NotCalled
    /\ info # Null
    /\ info.signature = 23117

\* C6: a source text that does not contain 'int main' makes compile return
\* success = false with an error that mentions 'main' and without an
\* executable, in the mock, the real and the wasm backend.
C6_MissingMainRejected ==
    \A p \in Procs :
        (ReturnedWithSource(p) /\ ~includes(frame[p].sourceCode, INT_MAIN)) =>
            /\ ~result[p].success
            /\ HasError(result[p], {"%s:1: error: 'main' function not found"})
            /\ "executable" \notin DOMAIN result[p]
            /\ WritesOf(frame[p].run) = <<>>

\* the real backend has rejected a text that has no 'int main'
C6_Witness ==
    \E p \in Procs :
        /\ Backend(instance) = "real"
        /\ ReturnedWithSource(p)
        /\ ~includes(frame[p].sourceCode, INT_MAIN)
        /\ ~result[p].success

\* C7: a source text with as many '{' as '}' or not: when the counts differ,
\* compile returns success = false with an error citing the braces, whatever
\* the backend.
C7_BraceMismatchRejected ==
    \A p \in Procs :
        ( /\ ReturnedWithSource(p)
          /\ matchCount(frame[p].sourceCode, 123)
               # matchCount(frame[p].sourceCode, 125) ) =>
            /\ ~result[p].success
            /\ HasError(result[p], {"%s:%d: error: expected '}'",
                                    "%s:1: error: mismatched braces"})

\* C8: when the count of '(' differs from the count of ')', validation
\* reports an error and compile returns success = false, in every backend.
C8_ParenMismatchRejected ==
    \A p \in Procs :
        ( /\ ReturnedWithSource(p)
          /\ matchCount(frame[p].sourceCode, 40)
               # matchCount(frame[p].sourceCode, 41) ) =>
            /\ ~result[p].success
            /\ Len(result[p].errors) > 0

\* C9: when the read of /C/PROJECT/<sourceFile> is rejected, compile returns
\* success = false with exactly the one error 'Source file not found', the
\* invocation has exactly one error diagnostic, it issued the read once and
\* it never issued a write.
C9_ReadFailureFailsFast ==
    \A p \in Procs :
        (result[p].returned /\ "readRejected" \in DOMAIN frame[p]) =>
            /\ ~result[p].success
            /\ result[p].errors =
                  <<[fmt |-> "Source file not found: %s",
                     args |-> <<frame[p].sourceFile>>, num |-> 0]>>
            /\ "executable" \notin DOMAIN result[p]
            /\ Len(ErrorsOf(frame[p].run)) = 1
            /\ ReadsOf(frame[p].run) =
                  <<[path |-> <<"/C/PROJECT/", frame[p].sourceFile>>,
                     run |-> frame[p].run]>>
            /\ WritesOf(frame[p].run) = <<>>

\* the read of a file the store does not hold was rejected
C9_Witness ==
    \E p \in Procs :
        /\ result[p].returned
        /\ "readRejected" \in DOMAIN frame[p]
        /\ frame[p].sourceFile \notin DOMAIN store
        /\ Len(reads) = 1

\* the messages are those of the latest invocation, the first of them the
\* info message that announces its start
LatestRunOnly ==
    (Quiet /\ runs > 0) =>
        /\ Len(getBuildMessages) > 0
        /\ \A k \in 1..Len(getBuildMessages) : getBuildMessages[k].run = runs
        /\ getBuildMessages[1].type = "info"
        /\ getBuildMessages[1].text.fmt \in
              {"Starting compilation of %s...", "Starting WASM compilation of %s..."}
        /\ \E p \in Procs :
              /\ frame[p].run = runs
              /\ getBuildMessages[1].text.args = <<frame[p].sourceFile>>

\* a step that starts no invocation only appends to the messages
AppendOnly ==
    \/ runs' # runs
    \/ /\ Len(buildMessages') >= Len(buildMessages)
       /\ SubSeq(buildMessages', 1, Len(buildMessages)) = buildMessages

\* C10: after any sequence of compile invocations that do not overlap,
\* getBuildMessages returns only the diagnostics of the most recent
\* invocation, in the order they were emitted, the first being the info
\* diagnostic that announces the invocation's start.
C10_MessagesOfLatestRun == [](LatestRunOnly) /\ [][AppendOnly]_vars

\* a second invocation has returned and its messages are the only ones
C10_Witness ==
    /\ Quiet
    /\ runs = 2
    /\ Len(getBuildMessages) >= 3
    /\ \A k \in 1..Len(getBuildMessages) : getBuildMessages[k].run = 2

(***************************************************************************)
(* Overlapping invocations                                                 *)
(***************************************************************************)

\* the source texts of at most one statement
ShortSources ==
    { pre \o open \o Flatten(body) \o close :
        pre \in Preambles, open \in Openers,
        body \in SeqsUpTo(Statements, 1), close \in Closers }

\* one pipeline instance whose caller does not await a compile before it
\* starts the next
OverlapInit ==
    /\ genCall = [op |-> "generateHelloWorld"]
    /\ GenInit
    /\ instance \in Instances
    /\ store \in Stores(ShortSources)
    /\ PipeStart

OverlapNext ==
    \E p \in Procs :
        \/ \E n \in FileNames :
              Compile(p, n.sourceFile, n.outputFile, NoOptions)
        \/ \E n \in FileNames, options \in CompilerOptionSets :
              /\ n.sourceFile \in DOMAIN store
              /\ WasmCompile(p, store[n.sourceFile], n.sourceFile,
                             n.outputFile, options)
        \/ PipeStep(p)

SpecOverlap == OverlapInit /\ [][OverlapNext]_vars

\* C11: when a second compile starts on a CompilerService instance while a
\* first one still awaits the guest store, then once both have completed
\* getBuildMessages holds only diagnostics of the invocation started last
\* and none of the other.  (The reads issued since the pipeline was last
\* quiet are two or more exactly when a compile started during another.)
C11_OverlapKeepsLatestOnly ==
    ( /\ instance.service = "CompilerService"
      /\ Quiet
      /\ Len(reads) >= 2 ) =>
        \A k \in 1..Len(getBuildMessages) : getBuildMessages[k].run = runs

\* the call made is generateFromSimpleC, and it has returned
FromSimpleC == genCall.op = "generateFromSimpleC" /\ image # NotCalled

\* the code/data region of an image: the bytes after the 32-byte header
Region(img) == SubSeq(img, 33, Len(img))

\* the literals of the print calls the generator recognises, in source order
Literals(sourceCode) == matchAllFrom(sourceCode, 1, TRUE)

\* the first position at which pat occurs in s, 0 when it does not occur
FirstAt(s, pat) ==
    IF includes(s, pat)
    THEN MinOf({i \in 1..Len(s) : IsPrefixAt(s, i, pat)})
    ELSE 0

\* C12: the code/data region generateFromSimpleC produces for a source with n
\* recognised print calls is the prologue 8C C8 8E D8, then n fragments
\* B4 09 BA lo hi CD 21, then the exit fragment B4 4C B0 00 CD 21, then the
\* n data blocks in source order; so for prints of "A" then "B" the bytes
\* "A$" come before the block of "B".
C12_RegionLayout ==
    FromSimpleC =>
        \E region \in {Region(image)}, literals \in {Literals(genCall.sourceCode)} :
        \E n \in {Len(literals)} :
            /\ Len(region) >= 4 + 7 * n + 6
            /\ SubSeq(region, 1, 4) = <<140, 200, 142, 216>>
            /\ \A k \in 0..(n - 1) :
                  /\ SubSeq(region, 4 + 7 * k + 1, 4 + 7 * k + 3) = <<180, 9, 186>>
                  /\ SubSeq(region, 4 + 7 * k + 6, 4 + 7 * k + 7) = <<205, 33>>
            /\ SubSeq(region, 4 + 7 * n + 1, 4 + 7 * n + 6)
                  = <<180, 76, 176, 0, 205, 33>>
            /\ SubSeq(region, 4 + 7 * n + 7, Len(region))
                  = Flatten([k \in 1..n |-> messageBytes(toDosMessage(literals[k]))])
            /\ (n = 2 /\ literals[1] = <<65>> /\ literals[2][1] = 66) =>
                  /\ FirstAt(region, <<65, 36>>) > 0
                  /\ FirstAt(region, <<65, 36>>) < FirstAt(region, <<66, 13, 10, 36>>)

\* the image of a source that prints "A" and then "B\n"
C12_Witness ==
    /\ FromSimpleC
    /\ Len(Literals(genCall.sourceCode)) = 2
    /\ Literals(genCall.sourceCode)[1] = <<65>>
    /\ Literals(genCall.sourceCode)[2] = <<66, 92, 110>>
    /\ FirstAt(Region(image), <<65, 36>>) = 4 + 7 * 2 + 6 + 1

RECURSIVE DecodeEscapes(_, _)
\* the literal from index i on, read left to right: backslash-n is CR LF,
\* backslash-t is TAB, backslash-r is CR, anything else stands for itself
DecodeEscapes(lit, i) ==
    IF i > Len(lit) THEN <<>>
    ELSE IF lit[i] = 92 /\ i < Len(lit) /\ lit[i + 1] = 110
         THEN <<13, 10>> \o DecodeEscapes(lit, i + 2)
    ELSE IF lit[i] = 92 /\ i < Len(lit) /\ lit[i + 1] = 116
         THEN <<9>> \o DecodeEscapes(lit, i + 2)
    ELSE IF lit[i] = 92 /\ i < Len(lit) /\ lit[i + 1] = 114
         THEN <<13>> \o DecodeEscapes(lit, i + 2)
    ELSE <<lit[i]>> \o DecodeEscapes(lit, i + 1)

\* the data block the law prescribes for a literal: its decoded text in
\* UTF-8 and one '$'
ExpectedBlock(lit) == encode(DecodeEscapes(lit, 1)) \o <<36>>

\* C13: the data block emitted for a recognised print literal is the literal
\* with every backslash-n replaced by CR LF, every backslash-t by TAB and
\* every backslash-r by CR, followed by exactly one '$'; every block ends
\* with '$'.
C13_EscapesAndTerminator ==
    FromSimpleC =>
        \E region \in {Region(image)}, literals \in {Literals(genCall.sourceCode)} :
            /\ SubSeq(region, 4 + 7 * Len(literals) + 7, Len(region))
                  = Flatten([k \in 1..Len(literals) |-> ExpectedBlock(literals[k])])
            /\ \A k \in 1..Len(literals) :
                  ExpectedBlock(literals[k])[Len(ExpectedBlock(literals[k]))] = 36
            /\ Len(literals) > 0 => region[Len(region)] = 36

\* the image of a source whose literals hold backslash-n, backslash-t and
\* backslash-r
C13_Witness ==
    /\ FromSimpleC
    /\ \E k \in 1..Len(Literals(genCall.sourceCode)) :
          includes(Literals(genCall.sourceCode)[k], <<92, 110>>)
    /\ \E k \in 1..Len(Literals(genCall.sourceCode)) :
          /\ includes(Literals(genCall.sourceCode)[k], <<92, 116>>)
          /\ includes(Literals(genCall.sourceCode)[k], <<92, 114>>)
    /\ includes(Region(image), <<13, 10, 36>>)

\* invocation p of WasmCompilerService.compile has returned
WasmReturned(p) ==
    instance.service = "WasmCompilerService" /\ result[p].returned

\* what compile returns for a source under given names, told without any
\* option: the validation verdict, then the generated image or its refusal
SourceOutcome(sourceCode, sourceFile) ==
    LET v == validateSourceCode(sourceCode, sourceFile)
    IN  IF ~v.success
        THEN [success |-> FALSE, errors |-> v.errors, warnings |-> v.warnings]
        ELSE IF Len(generateFromSimpleC(sourceCode)) > MaxImageSize
        THEN [success |-> FALSE,
              errors |-> <<Text("Failed to generate valid DOS executable", <<>>, 0)>>,
              warnings |-> v.warnings]
        ELSE [success |-> TRUE, errors |-> <<>>, warnings |-> v.warnings,
              executable |-> generateFromSimpleC(sourceCode)]

\* the messages of a run whose template is fmt
MessagesOf(run, fmt) ==
    SelectSeq(buildMessages, LAMBDA m : m.run = run /\ m.text.fmt = fmt)

\* the value diagnostics show for an option: the caller's, else the default
Echoed(options, key, default) ==
    IF key \in DOMAIN options THEN options[key] ELSE default

\* C14: what WasmCompilerService.compile returns for a source (success,
\* errors, warnings and the executable, byte for byte) is the same for every
\* choice of options and of config.verbose; the options show only in the
\* diagnostics, which carry the merged values: the caller's where given, the
\* configured defaults where absent.
C14_OptionsOnlyInDiagnostics ==
    \A p \in Procs :
        WasmReturned(p) =>
            \E f \in {frame[p]} :
            \E ref \in {SourceOutcome(f.sourceCode, f.sourceFile)},
               echo \in {<<Echoed(f.options, "optimization",
                                  instance.config.defaultOptimization),
                           BoolStr(Echoed(f.options, "warnings",
                                          instance.config.defaultWarnings)),
                           BoolStr(Echoed(f.options, "debug",
                                          instance.config.defaultDebug))>>} :
                /\ result[p].success = ref.success
                /\ result[p].errors = ref.errors
                /\ result[p].warnings = ref.warnings
                /\ ("executable" \in DOMAIN result[p]) = ref.success
                /\ ref.success => result[p].executable = ref.executable
                /\ \E ms \in {MessagesOf(f.run,
                                  "Optimization: %s, Warnings: %s, Debug: %s")} :
                      Len(ms) = 1 /\ ms[1].text.args = echo
                /\ (ref.success /\ instance.config.verbose) =>
                      /\ \E ms \in {MessagesOf(f.run, "Applied optimization level: %s")} :
                            Len(ms) = 1 /\ ms[1].text.args = <<echo[1]>>
                      /\ \E ms \in {MessagesOf(f.run, "Warnings enabled: %s")} :
                            Len(ms) = 1 /\ ms[1].text.args = <<echo[2]>>
                      /\ \E ms \in {MessagesOf(f.run, "Debug info: %s")} :
                            Len(ms) = 1 /\ ms[1].text.args = <<echo[3]>>

\* a verbose instance has returned an executable for a call that asked for
\* O3 with debug information and a custom flag
C14_Witness ==
    \E p \in Procs :
        /\ WasmReturned(p)
        /\ instance.config.verbose
        /\ result[p].success
        /\ Len(result[p].executable) > 32
        /\ "debug" \in DOMAIN frame[p].options
        /\ frame[p].options.debug
        /\ Len(MessagesOf(frame[p].run, "Custom flags: %s")) = 1

RECURSIVE BlockOffset(_, _, _)
\* 4 + 7n + 6 and the byte lengths of the data blocks before block k
BlockOffset(literals, n, k) ==
    IF k = 1 THEN 4 + 7 * n + 6
    ELSE BlockOffset(literals, n, k - 1)
           + Len(messageBytes(toDosMessage(literals[k - 1])))

\* C15: in an image that passed the 65535 guard, the two operand bytes of
\* the k-th print fragment, read little-endian, are 4 + 7n + 6 plus the byte
\* lengths of the data blocks before block k, and the data block of literal
\* k starts at that offset of the code/data region: nothing is lost to the
\* 16 bits of the operand.
C15_OperandIsBlockOffset ==
    \A p \in Procs :
        (Backend(instance) = "real" /\ result[p].returned /\ result[p].success) =>
            \E region \in {Region(result[p].executable)},
               literals \in {Literals(frame[p].sourceCode)} :
                \A k \in 1..Len(literals) :
                    \E at \in {BlockOffset(literals, Len(literals), k)},
                       block \in {messageBytes(toDosMessage(literals[k]))} :
                        /\ region[4 + 7 * (k - 1) + 4]
                             + 256 * region[4 + 7 * (k - 1) + 5] = at
                        /\ SubSeq(region, at + 1, at + Len(block)) = block

\* an accepted image with two prints, the second operand beyond the first
C15_Witness ==
    \E p \in Procs :
        /\ Backend(instance) = "real" /\ result[p].returned /\ result[p].success
        /\ Len(Literals(frame[p].sourceCode)) = 2
        /\ Literals(frame[p].sourceCode)[1] = <<66, 92, 110>>
        /\ Region(result[p].executable)[8] = 24
        /\ Region(result[p].executable)[15] = 28

\* the code/data buffer the call made hands to the assembler
CodeOf(call) ==
    CASE call.op = "generateHelloWorld" -> HelloWorldCode
      [] call.op = "generateFromSimpleC" -> simpleCCode(call.sourceCode)
      [] call.op = "createExecutableWithRelocations" -> call.code

\* C16: in every image of generateHelloWorld, generateFromSimpleC and
\* createExecutableWithRelocations the header is 32 bytes with
\* headerParagraphs = 2 and the code/data buffer begins at file offset
\* headerParagraphs * 16, so that with CS:IP = 0:0 the entry point the header
\* designates is the first byte of the code/data buffer.
C16_EntryAtCodeStart ==
    Generated =>
        \E code \in {CodeOf(genCall)} :
            /\ Len(image) >= 32
            /\ getUint16(image, 8) = 2
            /\ (getUint16(image, 20) = 0 /\ getUint16(image, 22) = 0) =>
                  /\ Len(image) >= getUint16(image, 8) * 16 + Len(code)
                  /\ SubSeq(image, getUint16(image, 8) * 16 + 1,
                            getUint16(image, 8) * 16 + Len(code)) = code

\* the call made is createExecutableWithRelocations, and it has returned
WithRelocations ==
    genCall.op = "createExecutableWithRelocations" /\ image # NotCalled

\* C17: createExecutableWithRelocations with a non-empty list writes entry i
\* as four bytes at file offset 32 + 4i (offset low, offset high, segment
\* low, segment high), sets relocations to the length of the list and
\* relocationTableOffset to 32; with an empty list relocations is 0,
\* relocationTableOffset is 28, and getRelocationEntries returns the empty
\* list and reads no byte of a table.
C17_TableAt32OrPlaceholder ==
    WithRelocations =>
        \E r \in {genCall.relocations} :
            IF Len(r) > 0
            THEN /\ image[7] + 256 * image[8] = Len(r)
                 /\ image[25] + 256 * image[26] = 32
                 /\ \A i \in 0..(Len(r) - 1) :
                       SubSeq(image, 32 + 4 * i + 1, 32 + 4 * i + 4)
                         = << r[i + 1].offset % 256, r[i + 1].offset \div 256,
                              r[i + 1].segment % 256, r[i + 1].segment \div 256 >>
            ELSE /\ image[7] + 256 * image[8] = 0
                 /\ image[25] + 256 * image[26] = 28
                 /\ entryReads(image) = {}
                 /\ entries # NotCalled =>
                       entries = [null |-> FALSE, entries |-> <<>>]

\* an image with a table of two entries before a non-empty code buffer
C17_Witness ==
    /\ WithRelocations
    /\ Len(genCall.relocations) = 2
    /\ genCall.relocations[1].offset = 258
    /\ Len(genCall.code) > 0
    /\ SubSeq(image, 33, 36) = <<2, 1, 255, 255>>
    /\ entryReads(image) = 32..39

HeaderOf(b) ==
    [signature |-> b[1] + 256 * b[2],
     bytesOnLastPage |-> b[3] + 256 * b[4],
     pagesInFile |-> b[5] + 256 * b[6],
     relocations |-> b[7] + 256 * b[8],
     headerParagraphs |-> b[9] + 256 * b[10],
     minExtraParagraphs |-> b[11] + 256 * b[12],
     maxExtraParagraphs |-> b[13] + 256 * b[14],
     initialSS |-> b[15] + 256 * b[16],
     initialSP |-> b[17] + 256 * b[18],
     checksum |-> b[19] + 256 * b[20],
     initialIP |-> b[21] + 256 * b[22],
     initialCS |-> b[23] + 256 * b[24],
     relocationTableOffset |-> b[25] + 256 * b[26],
     overlayNumber |-> b[27] + 256 * b[28]]

\* the number of entries, of count declared at table, that lie entirely
\* inside b before the first one that does not
Fitting(b, count, table) ==
    IF \A i \in 0..(count - 1) : table + 4 * i + 4 <= Len(b) THEN count
    ELSE MinOf({i \in 0..(count - 1) : table + 4 * i + 4 > Len(b)})

\* C19: for a buffer isValidMZExecutable accepts, getRelocationEntries
\* returns the entries 0, 1, ... of the table its header declares (count at
\* offset 6, table offset at offset 24), entry i from the four bytes at
\* relocationTableOffset + 4i of the buffer, up to the first entry that would
\* extend past the end of the buffer, so never more than header.relocations;
\* for a buffer it does not accept, getRelocationEntries returns null.
C19_EntriesWithinBuffer ==
    (genCall.op = "inspect" /\ entries # NotCalled) =>
        \E b \in {bytesOf(genCall.array)} :
            IF isValidMZExecutableView(genCall.array)
            THEN \E h \in {HeaderOf(b)} :
                 \E n \in {Fitting(b, h.relocations, h.relocationTableOffset)} :
                    /\ entries.null = FALSE
                    /\ Len(entries.entries) <= h.relocations
                    /\ entries.entries =
                          [i \in 1..n |->
                              [offset |-> getUint16(b, h.relocationTableOffset
                                                         + 4 * (i - 1)),
                               segment |-> getUint16(b, h.relocationTableOffset
                                                          + 4 * (i - 1) + 2)]]
            ELSE entries = Null

\* C20: isValidMZExecutable(buffer) is true exactly when the buffer has at
\* least 28 bytes and its bytes 0 and 1 are 4D 5A; getMZInfo returns null
\* exactly when isValidMZExecutable is false, and otherwise the fourteen
\* fields read little-endian at offsets 0, 2, ..., 26 of the buffer.
C20_ValidIffSignature ==
    genCall.op = "inspect" =>
        \E b \in {bytesOf(genCall.array)} :
        \E isMZ \in {Len(b) >= 28 /\ b[1] = 77 /\ b[2] = 90} :
            /\ valid # NotCalled => valid.value = isMZ
            /\ info # NotCalled =>
                  /\ (info = Null) = ~isValidMZExecutableView(genCall.array)
                  /\ info # Null => info = HeaderOf(b)

\* what the validator of the backend in use finds in a source text
ValidatorOf(inst, sourceCode, sourceFile) ==
    CASE Backend(inst) = "wasm" ->
            [errors |-> validateSourceCode(sourceCode, sourceFile).errors,
             warnings |-> validateSourceCode(sourceCode, sourceFile).warnings]
      [] Backend(inst) = "real" -> realValidate(sourceCode, sourceFile)
      [] Backend(inst) = "mock" -> mockValidate(sourceCode, sourceFile)

\* the texts of the diagnostics of a run that have the given severity and
\* are among the given texts, in the order of emission
DiagnosticsAmong(run, type, texts) ==
    LET ms == SelectSeq(buildMessages,
                 LAMBDA m : /\ m.run = run /\ m.type = type
                            /\ \E k \in 1..Len(texts) : texts[k] = m.text)
    IN  [k \in 1..Len(ms) |-> ms[k].text]

\* the number of characters c in s
CountOf(s, c) == Cardinality({i \in 1..Len(s) : s[i] = c})

\* C21: when the validator finds at least one error, the diagnostics of the
\* run hold one error diagnostic for every validator error and one warning
\* diagnostic for every validator warning, the result's errors and warnings
\* are the validator's whole lists (the extended backend reports a missing
\* main, mismatched braces and mismatched parentheses together), and neither
\* the generator nor writeBinaryFile was called: no executable, no
\* "Generating..." diagnostic, no write.
C21_ValidationFailureReportsAll ==
    \A p \in Procs :
        ReturnedWithSource(p) =>
            \E f \in {frame[p]} :
            \E v \in {ValidatorOf(instance, f.sourceCode, f.sourceFile)} :
                Len(v.errors) > 0 =>
                    /\ ~result[p].success
                    /\ result[p].errors = v.errors
                    /\ result[p].warnings = v.warnings
                    /\ DiagnosticsAmong(f.run, "error", v.errors) = v.errors
                    /\ DiagnosticsAmong(f.run, "warning", v.warnings) = v.warnings
                    /\ "executable" \notin DOMAIN result[p]
                    /\ WritesOf(f.run) = <<>>
                    /\ \A k \in 1..Len(buildMessages) :
                          buildMessages[k].run = f.run =>
                              buildMessages[k].text.fmt \notin
                                  {"Generating DOS MZ executable...",
                                   "Generating DOS executable with enhanced options..."}
                    /\ Backend(instance) = "wasm" =>
                          Len(result[p].errors) =
                              (IF includes(f.sourceCode, INT_MAIN) THEN 0 ELSE 1)
                              + (IF CountOf(f.sourceCode, 123) = CountOf(f.sourceCode, 125)
                                 THEN 0 ELSE 1)
                              + (IF CountOf(f.sourceCode, 40) = CountOf(f.sourceCode, 41)
                                 THEN 0 ELSE 1)

\* the extended backend has rejected a text with two violated rules and a
\* warning
C21_Witness ==
    \E p \in Procs :
        /\ ReturnedWithSource(p)
        /\ Backend(instance) = "wasm"
        /\ Len(result[p].errors) = 2
        /\ Len(result[p].warnings) = 1
        /\ Len(ErrorsOf(frame[p].run)) = 2

\* what a step may do to the build status: it is never set to 'running'
\* and never set back to 'idle'; an invocation that starts sets 'building';
\* an invocation that completes sets 'success' when its result has success
\* = true and 'error' otherwise, a rejected pipeline included
StatusStep ==
    /\ buildStatus' # "running"
    /\ buildStatus # "idle" => buildStatus' # "idle"
    /\ \A h \in 1..MaxOverlap :
          /\ (calls[h].pc # "await" /\ calls'[h].pc = "await") =>
                buildStatus' = "building"
          /\ (calls[h].pc = "await" /\ calls'[h].pc = "returned") =>
                /\ (buildStatus' = "success") = calls'[h].result.success
                /\ (buildStatus' = "error") = ~calls'[h].result.success
                /\ calls'[h].rejected => buildStatus' = "error"
    /\ buildStatus' # buildStatus =>
          \E h \in 1..MaxOverlap :
              calls'[h].pc # calls[h].pc /\ calls'[h].pc \in {"await", "returned"}

\* C22: the build status of useDosCompiler starts as 'idle'; each compile
\* invocation sets it to 'building' before the pipeline runs and, when it
\* completes, to 'success' if and only if the returned result has success =
\* true and to 'error' otherwise, also when the pipeline throws; the hook
\* never sets 'running' and never goes back to 'idle'.
C22_StatusFollowsResult == (buildStatus = "idle") /\ [][StatusStep]_vars

\* one invocation has returned a successful result and a later one has
\* ended in the catch block
C22_Witness ==
    \E h, g \in 1..MaxOverlap :
        /\ calls[h].pc = "returned" /\ calls[h].result.success
        /\ calls[g].pc = "returned" /\ calls[g].rejected
        /\ buildStatus = "error"
        /\ hookError = [null |-> FALSE, message |-> "Compilation failed"]

SimplePrintAt(s, i) ==
    /\ IsPrefixAt(s, i, PRINTF)
    /\ \E a \in (i + 6)..Len(s) :
          /\ \A j \in (i + 6)..(a - 1) : IsSpace(s[j])
          /\ s[a] = 40
          /\ \E q1 \in (a + 1)..Len(s) :
                /\ \A j \in (a + 1)..(q1 - 1) : IsSpace(s[j])
                /\ s[q1] = 34
                /\ \E q2 \in (q1 + 1)..Len(s) :
                      /\ s[q2] = 34
                      /\ \A j \in (q1 + 1)..(q2 - 1) : s[j] # 34
                      /\ \E c \in (q2 + 1)..Len(s) :
                            /\ \A j \in (q2 + 1)..(c - 1) : IsSpace(s[j])
                            /\ s[c] = 41

\* C23: when the source holds no call of the form printf("literal") with
\* exactly one string literal as its argument, generateFromSimpleC emits no
\* print fragment and no data block: the image has 42 bytes, the 32-byte
\* header, the prologue 8C C8 8E D8 and the exit fragment B4 4C B0 00 CD 21,
\* whatever else the source holds.
C23_NothingRecognisedNothingEmitted ==
    (FromSimpleC /\ \A i \in 1..Len(genCall.sourceCode) :
                        ~SimplePrintAt(genCall.sourceCode, i)) =>
        /\ Len(image) = 42
        /\ Region(image) = <<140, 200, 142, 216, 180, 76, 176, 0, 205, 33>>

\* the image of the arithmetic program, whose only printf has two arguments
C23_Witness ==
    /\ FromSimpleC
    /\ genCall.sourceCode = ArithmeticSource
    /\ includes(genCall.sourceCode, PRINTF)
    /\ Len(image) = 42

\* the fields of a CompileResult the caller compares
Fields(res) ==
    [k \in DOMAIN res \cap {"success", "errors", "warnings", "outputFile",
                            "executable"} |-> res[k]]

\* what an invocation of CompilerService.compile under the names of frame f
\* returns when nothing else runs, the store answering it as it answers
\* here (the read rejected or not, the write rejected or not): a function of
\* the names, of the text under the source name and of the store's answers
AloneResults(f) ==
    IF "readRejected" \in DOMAIN f
    THEN {[success |-> FALSE,
           errors |-> <<Text("Source file not found: %s", <<f.sourceFile>>, 0)>>,
           warnings |-> <<>>, outputFile |-> f.outputFile]}
    ELSE LET real == Backend(instance) = "real"
             sourceCode == store[f.sourceFile]
             v == IF real THEN realValidate(sourceCode, f.sourceFile)
                  ELSE mockValidate(sourceCode, f.sourceFile)
             executable == IF real THEN generateFromSimpleC(sourceCode)
                           ELSE createMockExecutable(sourceCode)
         IN  IF Len(v.errors) > 0
             THEN {[success |-> FALSE, errors |-> v.errors,
                    warnings |-> v.warnings, outputFile |-> f.outputFile]}
             ELSE IF real /\ invalidExecutable(executable)
             THEN {[success |-> FALSE,
                    errors |-> <<Text("Failed to generate valid DOS executable",
                                      <<>>, 0)>>,
                    warnings |-> v.warnings, outputFile |-> f.outputFile]}
             ELSE {[success |-> TRUE, errors |-> <<>>, warnings |-> v.warnings,
                    outputFile |-> f.outputFile, executable |-> executable]}
                  \cup {[success |-> FALSE,
                         errors |-> <<Text(IF e.isError THEN e.message
                                           ELSE "Unknown error", <<>>, 0)>>,
                         warnings |-> <<>>, outputFile |-> f.outputFile] :
                           e \in StoreErrors}

\* the writes an invocation under the names of frame f issues when nothing
\* else runs: the image once under its output name, when an image is made
AloneWrites(f) ==
    IF "readRejected" \in DOMAIN f THEN <<>>
    ELSE LET real == Backend(instance) = "real"
             sourceCode == store[f.sourceFile]
             v == IF real THEN realValidate(sourceCode, f.sourceFile)
                  ELSE mockValidate(sourceCode, f.sourceFile)
             executable == IF real THEN generateFromSimpleC(sourceCode)
                           ELSE createMockExecutable(sourceCode)
         IN  IF Len(v.errors) > 0 \/ (real /\ invalidExecutable(executable))
             THEN <<>>
             ELSE <<[path |-> ProjectPath(f.outputFile), data |-> executable,
                     run |-> f.run]>>

\* two invocations of CompilerService.compile overlapped, under different
\* source names and different output names, and both have returned
OverlappedApart ==
    /\ instance.service = "CompilerService"
    /\ Quiet
    /\ Len(reads) >= 2
    /\ \A p, q \in Procs :
          p # q => /\ frame[p].sourceFile # frame[q].sourceFile
                   /\ frame[p].outputFile # frame[q].outputFile

\* C24: when two compile invocations on one CompilerService overlap, with
\* different source names and different output names, each returns the
\* CompileResult (success, errors, warnings, outputFile, executable) it
\* would return alone, and each image is written exactly once, to its own
\* /C/PROJECT/<outputFile>.
C24_OverlapKeepsResultsApart ==
    OverlappedApart =>
        \A p \in Procs :
            /\ Fields(result[p]) \in AloneResults(frame[p])
            /\ result[p].success <=> "executable" \in DOMAIN result[p]
            /\ WritesOf(frame[p].run) = AloneWrites(frame[p])

\* both overlapping invocations succeeded, with different images, each
\* written once under its own name
C24_Witness ==
    /\ OverlappedApart
    /\ \A p \in Procs : result[p].success
    /\ result[1].executable # result[2].executable
    /\ Len(writes) = 2
    /\ writes[1].path # writes[2].path

\* C25: every CompileResult that CompilerService.compile or
\* WasmCompilerService.compile returns has, when success is true, an empty
\* errors list and an executable, and when success is false, a non-empty
\* errors list and no executable.
C25_SuccessErrorsExecutable ==
    \A p \in Procs :
        result[p].returned =>
            /\ result[p].success =>
                  /\ result[p].errors = <<>>
                  /\ "executable" \in DOMAIN result[p]
            /\ ~result[p].success =>
                  /\ result[p].errors # <<>>
                  /\ "executable" \notin DOMAIN result[p]

\* an invocation failed after its image was made: the result has an error
\* and no executable
C25_Witness ==
    \E p \in Procs :
        /\ result[p].returned
        /\ ~result[p].success
        /\ "executable" \in DOMAIN frame[p]
        /\ Len(result[p].errors) = 1
        /\ "executable" \notin DOMAIN result[p]

\* getBuildMessages holds a diagnostic of the given severity
HasDiagnostic(type) ==
    \E k \in 1..Len(getBuildMessages) : getBuildMessages[k].type = type

\* C26: after a single compile that overlapped no other, the diagnostics
\* hold a diagnostic of severity success exactly when the result's success
\* is true, and at least one of severity error exactly when it is false.
C26_DiagnosticsMatchSuccess ==
    \A p \in Procs :
        (Quiet /\ result[p].returned) =>
            /\ HasDiagnostic("success") <=> result[p].success
            /\ HasDiagnostic("error") <=> ~result[p].success

\* a compile returned success with a warning: the diagnostics hold a
\* warning and a success, and no error
C26_Witness ==
    \E p \in Procs :
        /\ Quiet
        /\ result[p].returned
        /\ result[p].success
        /\ result[p].warnings # <<>>
        /\ HasDiagnostic("warning")
        /\ HasDiagnostic("success")
        /\ ~HasDiagnostic("error")

\* C27: CompilerService.compile never throws or rejects: when writeBinary
\* fails after the image was generated, compile returns success=false with
\* the failure message as its only error (the text 'Unknown error' when what
\* was thrown is not an Error) and no executable, an error diagnostic is
\* appended, and the diagnostics of the run hold no success diagnostic.
C27_WriteFailureIsReturned ==
    \A p \in Procs :
        "writeRejected" \in DOMAIN frame[p] =>
            LET f == frame[p]
                message == IF f.writeRejected.isError
                           THEN f.writeRejected.message ELSE "Unknown error"
            IN  /\ pc[p] = "done"
                /\ result[p].returned
                /\ ~result[p].success
                /\ result[p].errors = <<Text(message, <<>>, 0)>>
                /\ "executable" \notin DOMAIN result[p]
                /\ "executable" \in DOMAIN f
                /\ Len(ErrorsOf(f.run)) = 1
                /\ ErrorsOf(f.run)[1].text =
                      Text("Compilation failed: %s", <<message>>, 0)
                /\ getBuildMessages[Len(getBuildMessages)] = ErrorsOf(f.run)[1]
                /\ \A k \in 1..Len(getBuildMessages) :
                      getBuildMessages[k].type # "success"

\* the store threw an Error with a message while the image of the full
\* backend was being written
C27_Witness ==
    \E p \in Procs :
        /\ Backend(instance) = "real"
        /\ "writeRejected" \in DOMAIN frame[p]
        /\ frame[p].writeRejected.isError
        /\ result[p].errors = <<Text(frame[p].writeRejected.message, <<>>, 0)>>
        /\ Len(WritesOf(frame[p].run)) = 1

\* the values bytes 18 and 19 are given to test that they do not matter
ChecksumBytes == {0, 1, 127, 128, 255}

\* C28: applyChecksum returns the buffer it was given and changes no byte of
\* it but bytes 18 and 19; applied again it leaves the buffer as it is;
\* calculateChecksum writes nothing to its argument, and what it returns
\* does not depend on what bytes 18 and 19 hold.
C28_ChecksumFrame ==
    (genCall.op = "applyChecksum" /\ image # NotCalled) =>
        LET before == [executable |-> genCall.buffer]
            applied == applyChecksumIn(before, "executable")
            again == applyChecksumIn(applied.heap, applied.value)
            calculated == calculateChecksumIn(before, "executable")
        IN  /\ applied.value = "executable"
            /\ image = applied.heap["executable"]
            /\ Len(image) = Len(genCall.buffer)
            /\ \A i \in 1..Len(image) :
                  i \notin {19, 20} => image[i] = genCall.buffer[i]
            /\ again.value = "executable"
            /\ again.heap["executable"] = image
            /\ calculated.heap["executable"] = genCall.buffer
            /\ \A c0, c1 \in ChecksumBytes :
                  calculateChecksum(setBytes(genCall.buffer, 18, <<c0, c1>>))
                      = calculated.value
            /\ calculateChecksum(image) = calculated.value

\* applyChecksum changed both bytes of the checksum word of a buffer of odd
\* length
C28_Witness ==
    /\ genCall.op = "applyChecksum"
    /\ image # NotCalled
    /\ Len(genCall.buffer) % 2 = 1
    /\ image[19] # genCall.buffer[19]
    /\ image[20] # genCall.buffer[20]

\* "Hello World!"
HELLO_WORLD == <<72, 101, 108, 108, 111, 32, 87, 111, 114, 108, 100, 33>>

\* C30: in the image of generateHelloWorld the 16-bit little-endian operand
\* of MOV DX (the two bytes after BA, at offset 3 of the code region) is the
\* offset from the start of the code region of the first byte of
\* "Hello World!", and the message begins right after the 7-byte print
\* fragment and the 6-byte exit fragment, at offset 13.
C30_HelloOperandIsMessageOffset ==
    (genCall.op = "generateHelloWorld" /\ image # NotCalled) =>
        LET region == Region(image)
        IN  /\ SubSeq(region, 1, 3) = <<180, 9, 186>>
            /\ FirstAt(region, HELLO_WORLD) - 1 = 7 + 6
            /\ getUint16(region, 3) = FirstAt(region, HELLO_WORLD) - 1

====
